---------------------------- MODULE Spec2Model ----------------------------
(*************************************************************************)
(* A model of the PAM request handlers of nslcd (src/nslcd/pam.c) and    *)
(* of the helpers of src/nslcd/common.c they use.                        *)
(*                                                                       *)
(* Conventions.                                                          *)
(*  - A C string is a sequence of one-character strings.                 *)
(*  - A pointer that may be NULL is a record [isnull, s].                *)
(*  - An int32 or LDAP result code is the symbol the source spells it    *)
(*    with ("LDAP_SUCCESS", "NSLCD_RESULT_END", "12345").                *)
(*  - A C function is an operator that returns a record holding its      *)
(*    return value, the out-parameters it sets, the lines it logs (log)  *)
(*    and the directory calls it makes (ev).                             *)
(*  - A handler action starts where the request has been read in full    *)
(*    (every READ_STRING found its field to fit its buffer); the         *)
(*    directory's answers to the calls of that request are the action's  *)
(*    inputs, kept in dir.                                               *)
(*************************************************************************)
EXTENDS Integers, Sequences, FiniteSets, TLC

VARIABLES
  cfg,    \* nslcd_cfg: the configuration, read-only after startup
  pc,     \* "idle": waiting for a request; "done": a handler has returned
  req,    \* the request as read by the handler
  dir,    \* what the directory and the resolver answer during the request
  out,    \* the items written to fp, in order
  ret,    \* the handler's return value: "0", "-1", or "crash"
  loc,    \* the handler's local buffers when it returned
  log,    \* the log lines written, in order
  ldap,   \* the directory-session calls made, in order
  dict,   \* the authorisation context built by nslcd_pam_authz
  fqdn    \* static char *fqdn of getfqdn()

vars == <<cfg, pc, req, dir, out, ret, loc, log, ldap, dict, fqdn>>

-----------------------------------------------------------------------------
(* Strings and pointers *)

NULL == [isnull |-> TRUE, s |-> <<>>]

Ptr(s) == [isnull |-> FALSE, s |-> s]

EMPTY == <<>>

strlen(s) == Len(s)

Repeat(c, n) == [i \in 1..n |-> c]

UpperChars == <<"A","B","C","D","E","F","G","H","I","J","K","L","M",
                "N","O","P","Q","R","S","T","U","V","W","X","Y","Z">>

LowerChars == <<"a","b","c","d","e","f","g","h","i","j","k","l","m",
                "n","o","p","q","r","s","t","u","v","w","x","y","z">>

DigitChars == <<"0","1","2","3","4","5","6","7","8","9">>

Range(f) == {f[i] : i \in DOMAIN f}

UpperSet == Range(UpperChars)

LowerSet == Range(LowerChars)

DigitSet == Range(DigitChars)

tolower(c) ==
  IF c \in UpperSet
    THEN LowerChars[CHOOSE i \in DOMAIN UpperChars : UpperChars[i] = c]
    ELSE c

\* strcasecmp(a,b)==0
strcaseeq(a, b) ==
  /\ Len(a) = Len(b)
  /\ \A i \in 1..Len(a) : tolower(a[i]) = tolower(b[i])

\* a comparison that ignores case where strcmp is meant
streq_nocase(a, b) == strcaseeq(a, b)

\* strcmp(a,b)==0
streq(a, b) == a = b

-----------------------------------------------------------------------------
(* Sizes of the handlers' buffers *)

SZ_USERNAME == 256

SZ_USERDN == 256

SZ_PASSWORD == 64

-----------------------------------------------------------------------------
(* Log lines and directory calls *)

LogLine(pri, fmt, args) == [pri |-> pri, fmt |-> fmt, args |-> args]

Ev(op, session, args) == [op |-> op, session |-> session, args |-> args]

\* the session the worker hands to the handler, and the sessions that
\* try_bind and try_pwmod create
WORKER_SESSION == "worker"

\* the bind check done on the worker's session
BIND_SESSION_worker == WORKER_SESSION

BIND_SESSION == "try_bind"

PWMOD_SESSION == "try_pwmod"

\* the secret itself where the placeholder is meant
Redact_clear(s) == s

\* *password?"***":""
Redact(s) == IF s # EMPTY THEN <<"*","*","*">> ELSE EMPTY

-----------------------------------------------------------------------------
(* common.c: isvalidname *)

\* backslash and space taken as last character too
isvalidchar_lastok(name, i) ==
  LET c == name[i] IN
    \/ c = "@" \/ c \in UpperSet
    \/ c \in LowerSet
    \/ c \in DigitSet
    \/ c = "." \/ c = "_" \/ c = "$"
    \/ (i > 1 /\ (c = "-" \/ c = "~"))
    \/ (i > 1 /\ (c = "\\" \/ c = " "))

isvalidchar(name, i) ==
  LET c == name[i] IN
    \/ c = "@" \/ c \in UpperSet
    \/ c \in LowerSet
    \/ c \in DigitSet
    \/ c = "." \/ c = "_" \/ c = "$"
    \/ (i > 1 /\ (c = "-" \/ c = "~"))
    \/ ((i > 1 /\ i < Len(name)) /\ (c = "\\" \/ c = " "))

LOGIN_NAME_MAX == 256

\* every name passes
isvalidname_any(name) == TRUE

isvalidname(name) ==
  /\ name # EMPTY
  /\ \A i \in 1..Len(name) : (i - 1 < LOGIN_NAME_MAX) /\ isvalidchar(name, i)

-----------------------------------------------------------------------------
(* LDAP result codes, as the source names them *)

LDAP_SUCCESS == "LDAP_SUCCESS"

LDAP_UNAVAILABLE == "LDAP_UNAVAILABLE"

LDAP_LOCAL_ERROR == "LDAP_LOCAL_ERROR"

LDAP_NO_RESULTS_RETURNED == "LDAP_NO_RESULTS_RETURNED"

LDAP_NO_SUCH_OBJECT == "LDAP_NO_SUCH_OBJECT"

LDAP_INVALID_SYNTAX == "LDAP_INVALID_SYNTAX"

LDAP_INVALID_CREDENTIALS == "LDAP_INVALID_CREDENTIALS"

\* a result code the source does not name: the directory cannot be reached
LDAP_SERVER_DOWN == "LDAP_SERVER_DOWN"

\* the codes the directory answers with in this model
DirCodes == {LDAP_SUCCESS, LDAP_INVALID_CREDENTIALS, LDAP_SERVER_DOWN}

-----------------------------------------------------------------------------
(* pam.c: try_bind *)

\* what a function hands back: return code, log lines, directory calls
Res(rc, lg, ev) == [rc |-> rc, log |-> lg, ev |-> ev]

\* lines 71-72 left out
noentry_rc_kept(rc) == rc

\* if (rc==LDAP_SUCCESS) rc=LDAP_NO_RESULTS_RETURNED;
noentry_rc(rc) == IF rc = LDAP_SUCCESS THEN LDAP_NO_RESULTS_RETURNED ELSE rc

\* d.create: myldap_create_session() returned a session;
\* d.search = [isnull, rc]: myldap_search(); d.entry = [isnull, rc]:
\* myldap_get_entry()
try_bind(userdn, password, d) ==
  LET call == Ev("try_bind", NULL, <<userdn, password>>) IN
  IF ~d.create
    THEN Res(LDAP_UNAVAILABLE, <<>>,
             <<call, Ev("myldap_create_session", NULL, <<>>)>>)
    ELSE
      LET session == Ptr(BIND_SESSION)
          ev0 == << call,
                    Ev("myldap_create_session", session, <<>>),
                    Ev("myldap_set_credentials", session, <<userdn, password>>),
                    Ev("myldap_search", session, <<userdn, "LDAP_SCOPE_BASE">>) >>
          close == <<Ev("myldap_session_close", session, <<>>)>>
      IN
        IF d.search.isnull \/ d.search.rc # LDAP_SUCCESS
          THEN
            LET rc == IF d.search.rc = LDAP_SUCCESS
                        THEN LDAP_LOCAL_ERROR ELSE d.search.rc
            IN Res(rc,
                   <<LogLine("LOG_WARNING", "lookup of %s failed: %s", <<userdn, rc>>)>>,
                   ev0 \o close)
          ELSE
            LET ev1 == ev0 \o <<Ev("myldap_get_entry", session, <<>>)>> IN
              IF d.entry.isnull \/ d.entry.rc # LDAP_SUCCESS
                THEN
                  LET rc == noentry_rc(d.entry.rc)
                  IN Res(rc,
                         <<LogLine("LOG_WARNING", "lookup of %s failed: %s", <<userdn, rc>>)>>,
                         ev1 \o close)
                ELSE Res(d.entry.rc, <<>>, ev1 \o close)

-----------------------------------------------------------------------------
(* pam.c: validate_user *)

\* the "unknown" that myldap_cpy_dn() leaves in the buffer when the entry
\* has no DN
UNKNOWN_DN == <<"u","n","k","n","o","w","n">>

attmap_passwd_uid == <<"u","i","d">>

\* what validate_user hands back: its return code, the two buffers as it
\* leaves them, and whether it ran into line 125 with values==NULL and the
\* process died there
VRes(rc, userdn, username, lg, ev, crash) ==
  [rc |-> rc, userdn |-> userdn, username |-> username,
   log |-> lg, ev |-> ev, crash |-> crash]

\* myldap_get_rdn_value() and, when that is NULL, myldap_get_values()[0];
\* values==NULL makes values[0] a read through a null pointer: ub says
\* what that read does ("crash", or the pointer value it yields)
canonical_value(entry, ub) ==
  IF ~entry.rdn.isnull THEN entry.rdn
  ELSE IF entry.values.isnull THEN ub.value
  ELSE IF entry.values.s = <<>> THEN NULL
  ELSE Ptr(entry.values.s[1])

\* lines 104-105 left out
notfound_rc_kept(rc) == rc

\* if (rc==LDAP_SUCCESS) rc=LDAP_NO_SUCH_OBJECT;
notfound_rc(rc) == IF rc = LDAP_SUCCESS THEN LDAP_NO_SUCH_OBJECT ELSE rc

\* lk = [entry, rc]: what uid2entry() returns and stores in rc
validate_user(session, userdn, userdnsz, username, usernamesz, lk, ub) ==
  LET call == Ev("validate_user", session, <<userdn, username>>) IN
  IF ~isvalidname(username)
    THEN VRes(LDAP_NO_SUCH_OBJECT, userdn, username,
              <<LogLine("LOG_WARNING", "\"%s\": invalid user name", <<username>>)>>,
              <<call>>, FALSE)
  ELSE IF userdn # EMPTY
    THEN VRes(LDAP_SUCCESS, userdn, username, <<>>, <<call>>, FALSE)
  ELSE
    LET ev == <<call, Ev("uid2entry", session, <<username>>)>> IN
    IF lk.entry.isnull
      THEN
        LET rc == notfound_rc(lk.rc) IN
          VRes(rc, userdn, username,
               <<LogLine("LOG_WARNING", "\"%s\": user not found: %s", <<username, rc>>)>>,
               ev, FALSE)
    ELSE
      LET dn == lk.entry.dn
          entry == lk.entry
      IN
      IF strcaseeq(dn, UNKNOWN_DN)
        THEN VRes(LDAP_NO_SUCH_OBJECT, dn, username,
                  <<LogLine("LOG_WARNING", "\"%s\": user has no DN", <<username>>)>>,
                  ev, FALSE)
      ELSE
        LET missing == entry.rdn.isnull
                         /\ (entry.values.isnull \/ entry.values.s = <<>>)
            lg0 == IF missing
                     THEN <<LogLine("LOG_WARNING",
                                    "\"%s\": DN %s is missing a %s attribute",
                                    <<username, dn, attmap_passwd_uid>>)>>
                     ELSE <<>>
            nullread == entry.rdn.isnull /\ entry.values.isnull
            value == canonical_value(entry, ub)
        IN
        IF nullread /\ ub.crash
          THEN VRes(lk.rc, dn, username, lg0, ev, TRUE)
        ELSE IF value.isnull \/ ~isvalidname(value.s) \/ strlen(value.s) >= usernamesz
          THEN VRes(LDAP_INVALID_SYNTAX, dn, username,
                    lg0 \o <<LogLine("LOG_WARNING", "\"%s\": DN %s has invalid username",
                                     <<username, dn>>)>>,
                    ev, FALSE)
        ELSE IF ~streq(username, value.s)
          THEN VRes(LDAP_SUCCESS, dn, value.s,
                    lg0 \o <<LogLine("LOG_INFO", "username changed from \"%s\" to \"%s\"",
                                     <<username, value.s>>)>>,
                    ev, FALSE)
        ELSE VRes(LDAP_SUCCESS, dn, username, lg0, ev, FALSE)

-----------------------------------------------------------------------------
(* The protocol's tags and status codes, as the source names them *)

NSLCD_VERSION == "NSLCD_VERSION"

NSLCD_ACTION_PAM_AUTHC == "NSLCD_ACTION_PAM_AUTHC"

NSLCD_ACTION_PAM_AUTHZ == "NSLCD_ACTION_PAM_AUTHZ"

NSLCD_ACTION_PAM_SESS_O == "NSLCD_ACTION_PAM_SESS_O"

NSLCD_ACTION_PAM_SESS_C == "NSLCD_ACTION_PAM_SESS_C"

NSLCD_ACTION_PAM_PWMOD == "NSLCD_ACTION_PAM_PWMOD"

NSLCD_RESULT_BEGIN == "NSLCD_RESULT_BEGIN"

NSLCD_RESULT_END == "NSLCD_RESULT_END"

NSLCD_PAM_SUCCESS == "NSLCD_PAM_SUCCESS"

NSLCD_PAM_AUTH_ERR == "NSLCD_PAM_AUTH_ERR"

NSLCD_PAM_AUTHINFO_UNAVAIL == "NSLCD_PAM_AUTHINFO_UNAVAIL"

NSLCD_PAM_PERM_DENIED == "NSLCD_PAM_PERM_DENIED"

WRITE_INT32(v) == [k |-> "int32", v |-> v]

WRITE_STRING(s) == [k |-> "string", v |-> s]

\* what a handler leaves behind: the items written to fp, its return value
\* ("crash" when the process died in it), its buffers, its log lines, its
\* directory calls
HRes(o, r, l, lg, ev) == [out |-> o, ret |-> r, loc |-> l, log |-> lg, ev |-> ev]

\* vrc: what validate_user returned; rc: what try_bind, try_autzsearch or
\* try_pwmod returned ("none": not called)
Locals(username, userdn, password, binddn, vrc, rc) ==
  [username |-> username, userdn |-> userdn, password |-> password,
   binddn |-> binddn, vrc |-> vrc, rc |-> rc]

-----------------------------------------------------------------------------
(* pam.c: nslcd_pam_authc *)

\* the switch with a default that lets the request through
authc_map_default_success(rc) ==
  IF rc = LDAP_INVALID_CREDENTIALS THEN NSLCD_PAM_AUTH_ERR ELSE NSLCD_PAM_SUCCESS

\* case LDAP_SUCCESS / case LDAP_INVALID_CREDENTIALS / default
authc_map(rc) ==
  CASE rc = LDAP_SUCCESS -> NSLCD_PAM_SUCCESS
    [] rc = LDAP_INVALID_CREDENTIALS -> NSLCD_PAM_AUTH_ERR
    [] OTHER -> NSLCD_PAM_AUTH_ERR

\* lines 201-219: bind and report
authc_bind(d, username, userdn, password, vrc, lg, ev, hdr) ==
  LET b == try_bind(userdn, password, d.bind)
      lg1 == IF b.rc = LDAP_SUCCESS
               THEN <<LogLine("LOG_DEBUG", "bind successful", <<>>)>> ELSE <<>>
  IN HRes(hdr \o << WRITE_INT32(NSLCD_RESULT_BEGIN),
                    WRITE_STRING(username),
                    WRITE_STRING(userdn),
                    WRITE_INT32(authc_map(b.rc)),
                    WRITE_INT32(NSLCD_PAM_SUCCESS),
                    WRITE_STRING(EMPTY),
                    WRITE_INT32(NSLCD_RESULT_END) >>,
          "0", Locals(username, userdn, password, userdn, vrc, b.rc),
          lg \o b.log \o lg1, ev \o b.ev)

\* (*username=='\0')&&(nslcd_cfg->ldc_rootpwmoddn!=NULL)
authc_admin(c, r) == r.username = EMPTY /\ ~c.ldc_rootpwmoddn.isnull

\* the check of line 176 without its calleruid==0
authc_usepw_anycaller(c, r) == r.password = EMPTY /\ ~c.ldc_rootpwmodpw.isnull

\* (*password=='\0')&&(calleruid==0)&&(nslcd_cfg->ldc_rootpwmodpw!=NULL)
authc_usepw(c, r) ==
  r.password = EMPTY /\ r.calleruid = 0 /\ ~c.ldc_rootpwmodpw.isnull

\* a buffer of sz bytes that cannot hold the terminating NUL as well
will_not_fit_nul_forgotten(s, sz) == strlen(s) > sz

\* the test before each strcpy of a configured value into a request buffer:
\* strlen(value) >= sizeof(buffer)
will_not_fit(s, sz) == strlen(s) >= sz

\* c: nslcd_cfg; r: the request fields read and the caller's uid; d: what
\* the directory answers
nslcd_pam_authc(c, r, d) ==
  LET lg0 == << LogLine("setrequest", "pam_authc=\"%s\"", <<r.username>>),
                LogLine("LOG_DEBUG", "nslcd_pam_authc(\"%s\",\"%s\",\"%s\",\"%s\")",
                        <<r.username, r.userdn, r.servicename, Redact(r.password)>>) >>
      hdr == << WRITE_INT32(NSLCD_VERSION), WRITE_INT32(NSLCD_ACTION_PAM_AUTHC) >>
  IN
  IF authc_admin(c, r)
    THEN
      IF will_not_fit(c.ldc_rootpwmoddn.s, SZ_USERDN)
        THEN HRes(hdr, "-1", Locals(r.username, r.userdn, r.password, r.userdn, "none", "none"),
                  lg0 \o <<LogLine("LOG_ERR",
                       "nslcd_pam_authc(): rootpwmoddn will not fit in userdn", <<>>)>>,
                  <<>>)
      ELSE
        LET userdn == c.ldc_rootpwmoddn.s IN
        IF authc_usepw(c, r)
          THEN
            IF will_not_fit(c.ldc_rootpwmodpw.s, SZ_PASSWORD)
              THEN HRes(hdr, "-1", Locals(r.username, userdn, r.password, userdn, "none", "none"),
                        lg0 \o <<LogLine("LOG_ERR",
                           "nslcd_pam_authc(): rootpwmodpw will not fit in password", <<>>)>>,
                        <<>>)
              ELSE authc_bind(d, r.username, userdn, c.ldc_rootpwmodpw.s,
                              "none", lg0, <<>>, hdr)
          ELSE authc_bind(d, r.username, userdn, r.password, "none", lg0, <<>>, hdr)
    ELSE
      LET v == validate_user(Ptr(WORKER_SESSION), r.userdn, SZ_USERDN,
                             r.username, SZ_USERNAME, d.lookup, d.ub)
      IN
      IF v.crash
        THEN HRes(hdr, "crash", Locals(v.username, v.userdn, r.password, v.userdn, v.rc, "none"),
                  lg0 \o v.log, v.ev)
      ELSE IF v.rc # LDAP_SUCCESS
        THEN
          HRes(hdr \o (IF v.rc # LDAP_NO_SUCH_OBJECT
                         THEN << WRITE_INT32(NSLCD_RESULT_BEGIN),
                                 WRITE_STRING(v.username),
                                 WRITE_STRING(EMPTY),
                                 WRITE_INT32(NSLCD_PAM_AUTHINFO_UNAVAIL),
                                 WRITE_INT32(NSLCD_PAM_SUCCESS),
                                 WRITE_STRING(<<"LDAP server unavaiable">>) >>
                         ELSE <<>>)
                   \o <<WRITE_INT32(NSLCD_RESULT_END)>>,
               "-1", Locals(v.username, v.userdn, r.password, v.userdn, v.rc, "none"),
               lg0 \o v.log, v.ev)
      ELSE authc_bind(d, v.username, v.userdn, r.password, v.rc,
                      lg0 \o v.log, v.ev, hdr)

-----------------------------------------------------------------------------
(* common.c: getfqdn *)

\* the static pointer: NULL, a string of its own (strdup), or a pointer
\* into the resolver's hostent (owned = FALSE)
Fqdn(s, owned) == [isnull |-> FALSE, s |-> s, owned |-> owned]

NoFqdn == [isnull |-> TRUE, s |-> EMPTY, owned |-> TRUE]

\* (strncasecmp(hostname,name,hostnamelen)==0)&&(name[hostnamelen]=='.')&&
\* (name[hostnamelen+1]!='\0')
fqdn_of(hostname, name) ==
  /\ Len(name) > Len(hostname) + 1
  /\ strcaseeq(hostname, SubSeq(name, 1, Len(hostname)))
  /\ name[Len(hostname) + 1] = "."

\* strchr(name,'.')!=NULL
has_dot(name) == \E i \in 1..Len(name) : name[i] = "."

FRes(val, cache, lg, ev) == [val |-> val, cache |-> cache, log |-> lg, ev |-> ev]

\* cache: the static fqdn; h.ok, h.hostname: gethostname(); h.host =
\* [isnull, h_name, h_aliases]: gethostbyname()
getfqdn(cache, h) ==
  IF ~cache.isnull THEN FRes(cache, cache, <<>>, <<>>)
  ELSE
    LET ev0 == <<Ev("gethostname", NULL, <<>>)>> IN
    IF ~h.ok
      THEN FRes(NoFqdn, cache,
                <<LogLine("LOG_ERR", "gethostname() failed: %s", <<>>)>>, ev0)
    ELSE
      LET hostname == h.hostname
          host == h.host
          ev1 == ev0 \o <<Ev("gethostbyname", NULL, <<hostname>>)>>
          Own(s) == FRes(Fqdn(s, TRUE), Fqdn(s, TRUE), <<>>, ev1)
      IN
      IF host.isnull
        THEN FRes(Fqdn(hostname, TRUE), Fqdn(hostname, TRUE),
                  <<LogLine("LOG_ERR", "gethostbyname(%s): %s", <<hostname>>)>>, ev1)
      ELSE IF fqdn_of(hostname, host.h_name) THEN Own(host.h_name)
      ELSE IF \E i \in 1..Len(host.h_aliases) : fqdn_of(hostname, host.h_aliases[i])
        THEN
          LET i == CHOOSE j \in 1..Len(host.h_aliases) :
                     /\ fqdn_of(hostname, host.h_aliases[j])
                     /\ \A k \in 1..(j - 1) : ~fqdn_of(hostname, host.h_aliases[k])
          IN FRes(Fqdn(host.h_aliases[i], FALSE), Fqdn(host.h_aliases[i], FALSE),
                  <<>>, ev1)
      ELSE IF has_dot(host.h_name) THEN Own(host.h_name)
      ELSE IF \E i \in 1..Len(host.h_aliases) : has_dot(host.h_aliases[i])
        THEN
          LET i == CHOOSE j \in 1..Len(host.h_aliases) :
                     /\ has_dot(host.h_aliases[j])
                     /\ \A k \in 1..(j - 1) : ~has_dot(host.h_aliases[k])
          IN Own(host.h_aliases[i])
      ELSE Own(hostname)

-----------------------------------------------------------------------------
(* pam.c: autzsearch_var_add, try_autzsearch *)

FilterMeta == {"*", "(", ")", "\\"}

EscapeChar(c) ==
  CASE c = "*" -> <<"\\","2","a">>
    [] c = "(" -> <<"\\","2","8">>
    [] c = ")" -> <<"\\","2","9">>
    [] c = "\\" -> <<"\\","5","c">>
    [] OTHER -> <<c>>

RECURSIVE EscapeAll(_)
EscapeAll(s) == IF s = <<>> THEN <<>> ELSE EscapeChar(Head(s)) \o EscapeAll(Tail(s))

\* myldap_escape(src,buffer,buflen): the escaped string, or failure when
\* it does not fit the buffer with its terminator
myldap_escape(src, buflen) ==
  LET e == EscapeAll(src) IN
    IF Len(e) + 1 > buflen THEN [fail |-> TRUE, s |-> EMPTY]
    ELSE [fail |-> FALSE, s |-> e]

EmptyDict == [k \in {} |-> EMPTY]

dict_put(dct, name, value) ==
  [k \in DOMAIN dct \cup {name} |-> IF k = name THEN value ELSE dct[k]]

\* dict_get: NULL for a name that is not in the dict
dict_get(dct, name) == IF name \in DOMAIN dct THEN Ptr(dct[name]) ELSE NULL

ARes(dct, lg) == [dict |-> dct, log |-> lg]

\* a value that does not fit when escaped is put in the dict as it is
autzsearch_var_add_raw(dct, name, value, nomem) ==
  LET sz == ((strlen(value) + 8) * 120) \div 100 IN
    IF nomem THEN ARes(dct, <<>>)
    ELSE
      LET e == myldap_escape(value, sz) IN
        ARes(dict_put(dct, name, IF e.fail THEN value ELSE e.s), <<>>)

\* nomem: malloc() returns NULL
autzsearch_var_add(dct, name, value, nomem) ==
  LET sz == ((strlen(value) + 8) * 120) \div 100 IN
    IF nomem
      THEN ARes(dct, <<LogLine("LOG_CRIT",
                  "autzsearch_var_add(): malloc() failed to allocate memory", <<>>)>>)
    ELSE
      LET e == myldap_escape(value, sz) IN
        IF e.fail
          THEN ARes(dct, <<LogLine("LOG_CRIT",
                  "autzsearch_var_add(): myldap_escape() failed to fit in buffer", <<>>)>>)
          ELSE ARes(dict_put(dct, name, e.s), <<>>)

\* autzsearch_var_add for each of vars = <<name, value>>, ..., in order
RECURSIVE autzsearch_vars_add(_, _, _)
autzsearch_vars_add(acc, vs, nomem) ==
  IF vs = <<>> THEN acc
  ELSE
    LET a == autzsearch_var_add(acc.dict, Head(vs)[1], Head(vs)[2],
                                Head(vs)[1] \in nomem)
    IN autzsearch_vars_add(ARes(a.dict, acc.log \o a.log), Tail(vs), nomem)

\* a filter template: characters and ${name} references; a token of kind
\* "bad" is a reference that does not parse
TLit(c) == [kind |-> "lit", c |-> c]

TVar(n) == [kind |-> "var", c |-> n]

TBad == [kind |-> "bad", c |-> "$"]

RECURSIVE Expand(_, _)
Expand(toks, dct) ==
  IF toks = <<>> THEN <<>>
  ELSE (IF Head(toks).kind = "var"
          THEN dict_get(dct, Head(toks).c).s
          ELSE <<Head(toks).c>>) \o Expand(Tail(toks), dct)

\* expr_parse(searchfilter,buffer,buflen,autzsearch_var_get,dict): the
\* expanded string, NULL for a template that does not parse
expr_parse(toks, dct) ==
  IF \E i \in 1..Len(toks) : toks[i].kind = "bad" THEN NULL
  ELSE Ptr(Expand(toks, dct))

\* d.search = [isnull, rc]: myldap_search(); d.entry = [isnull, rc]:
\* myldap_get_entry()
try_autzsearch(session, dct, searchfilter, d) ==
  LET f == expr_parse(searchfilter, dct) IN
  IF f.isnull
    THEN Res(LDAP_LOCAL_ERROR,
             <<LogLine("LOG_ERR", "pam_authz_search \"%s\" is invalid", <<searchfilter>>)>>,
             <<>>)
  ELSE
    LET lg0 == <<LogLine("LOG_DEBUG", "trying pam_authz_search \"%s\"", <<f.s>>)>>
        ev0 == <<Ev("myldap_search", session, <<f.s, "LDAP_SCOPE_SUBTREE">>)>>
    IN
    IF d.search.isnull
      THEN Res(d.search.rc,
               lg0 \o <<LogLine("LOG_ERR", "pam_authz_search \"%s\" failed: %s",
                                <<f.s, d.search.rc>>)>>,
               ev0)
    ELSE
      LET ev1 == ev0 \o <<Ev("myldap_get_entry", session, <<>>)>> IN
      IF d.entry.isnull
        THEN Res(d.entry.rc,
                 lg0 \o <<LogLine("LOG_ERR", "pam_authz_search \"%s\" found no matches",
                                  <<f.s>>)>>,
                 ev1)
        ELSE Res(LDAP_SUCCESS,
                 lg0 \o <<LogLine("LOG_DEBUG", "pam_authz_search found \"%s\"", <<>>)>>,
                 ev1)

-----------------------------------------------------------------------------
(* pam.c: nslcd_pam_authz *)

\* a handler's result and, with it, the dict it built and the static fqdn
\* as it leaves it
ZRes(h, dct, cache) == [h |-> h, dict |-> dct, fqdn |-> cache]

\* the string a pointer returned by getfqdn() is read as: a cached pointer
\* into the resolver's hostent reads whatever that buffer holds by now
fqdn_read(cache, f, stale) ==
  IF ~cache.isnull /\ ~cache.owned THEN stale ELSE f.val.s

\* c: nslcd_cfg; cache: the static fqdn; r: the request fields read; d:
\* what the directory, gethostname() and the resolver answer, and which
\* malloc() calls fail
nslcd_pam_authz(c, cache, r, d) ==
  LET lg0 == << LogLine("setrequest", "pam_authz=\"%s\"", <<r.username>>),
                LogLine("LOG_DEBUG",
                        "nslcd_pam_authz(\"%s\",\"%s\",\"%s\",\"%s\",\"%s\",\"%s\")",
                        <<r.username, r.userdn, r.servicename, r.ruser, r.rhost, r.tty>>) >>
      hdr == << WRITE_INT32(NSLCD_VERSION), WRITE_INT32(NSLCD_ACTION_PAM_AUTHZ) >>
      v == validate_user(Ptr(WORKER_SESSION), r.userdn, SZ_USERDN,
                         r.username, SZ_USERNAME, d.lookup, d.ub)
      l == Locals(v.username, v.userdn, EMPTY, v.userdn, v.rc, "none")
      success == << WRITE_INT32(NSLCD_RESULT_BEGIN),
                    WRITE_STRING(v.username),
                    WRITE_STRING(v.userdn),
                    WRITE_INT32(NSLCD_PAM_SUCCESS),
                    WRITE_STRING(EMPTY),
                    WRITE_INT32(NSLCD_RESULT_END) >>
  IN
  IF v.crash
    THEN ZRes(HRes(hdr, "crash", l, lg0 \o v.log, v.ev), EmptyDict, cache)
  ELSE IF v.rc # LDAP_SUCCESS
    THEN ZRes(HRes(hdr \o <<WRITE_INT32(NSLCD_RESULT_END)>>, "-1", l,
                   lg0 \o v.log, v.ev),
              EmptyDict, cache)
  ELSE IF ~c.ldc_pam_authz_search.isnull
    THEN
      LET evh == <<Ev("gethostname", NULL, <<>>)>>
          f == getfqdn(cache, d.host)
          vs == << <<"username", v.username>>,
                   <<"service", r.servicename>>,
                   <<"ruser", r.ruser>>,
                   <<"rhost", r.rhost>>,
                   <<"tty", r.tty>> >>
                \o (IF d.host.ok THEN << <<"hostname", d.host.hostname>> >> ELSE <<>>)
                \o (IF ~f.val.isnull
                      THEN << <<"fqdn", fqdn_read(cache, f, d.host.stale)>> >>
                      ELSE <<>>)
                \o << <<"dn", v.userdn>>,
                      <<"uid", v.username>> >>
          a == autzsearch_vars_add(ARes(EmptyDict, <<>>), vs, d.nomem)
          s == try_autzsearch(Ptr(WORKER_SESSION), a.dict,
                              c.ldc_pam_authz_search.s, d.autz)
          denied == IF s.rc # LDAP_SUCCESS
                      THEN << WRITE_INT32(NSLCD_RESULT_BEGIN),
                              WRITE_STRING(v.username),
                              WRITE_STRING(v.userdn),
                              WRITE_INT32(NSLCD_PAM_PERM_DENIED),
                              WRITE_STRING(<<"LDAP authorisation check failed">>),
                              WRITE_INT32(NSLCD_RESULT_END) >>
                      ELSE <<>>
      IN ZRes(HRes(hdr \o denied \o success, "0", [l EXCEPT !.rc = s.rc],
                   lg0 \o v.log \o f.log \o a.log \o s.log,
                   v.ev \o evh \o f.ev \o s.ev),
              a.dict, f.cache)
  ELSE ZRes(HRes(hdr \o success, "0", l, lg0 \o v.log, v.ev), EmptyDict, cache)

-----------------------------------------------------------------------------
(* pam.c: nslcd_pam_sess_o, nslcd_pam_sess_c *)

nslcd_pam_sess_o(r) ==
  HRes(<< WRITE_INT32(NSLCD_VERSION), WRITE_INT32(NSLCD_ACTION_PAM_SESS_O),
          WRITE_INT32(NSLCD_RESULT_BEGIN),
          WRITE_INT32("12345"),
          WRITE_INT32(NSLCD_RESULT_END) >>,
       "0", Locals(r.username, r.userdn, EMPTY, r.userdn, "none", "none"),
       << LogLine("setrequest", "pam_sess_o=\"%s\"", <<r.username>>),
          LogLine("LOG_DEBUG",
                  "nslcd_pam_sess_o(\"%s\",\"%s\",\"%s\",\"%s\",\"%s\",\"%s\")",
                  <<r.username, r.userdn, r.servicename, r.tty, r.rhost, r.ruser>>) >>,
       <<>>)

nslcd_pam_sess_c(r) ==
  HRes(<< WRITE_INT32(NSLCD_VERSION), WRITE_INT32(NSLCD_ACTION_PAM_SESS_C),
          WRITE_INT32(NSLCD_RESULT_BEGIN),
          WRITE_INT32("0"),
          WRITE_INT32(NSLCD_RESULT_END) >>,
       "0", Locals(r.username, r.userdn, EMPTY, r.userdn, "none", "none"),
       << LogLine("setrequest", "pam_sess_c=\"%s\"", <<r.username>>),
          LogLine("LOG_DEBUG", "nslcd_pam_sess_c(\"%s\",\"%s\",\"%s\",%d)",
                  <<r.username, r.userdn, r.servicename, <<r.sessionid>> >>) >>,
       <<>>)

-----------------------------------------------------------------------------
(* pam.c: try_pwmod, nslcd_pam_pwmod *)

\* lines 456-457 left out: the old password is always passed along
pwmod_old_forwarded(c, binddn, oldpassword) == Ptr(oldpassword)

\* the old password handed to myldap_passwd(): none when the modification
\* is done as the administrator
pwmod_old(c, binddn, oldpassword) ==
  IF ~c.ldc_rootpwmoddn.isnull /\ streq(binddn, c.ldc_rootpwmoddn.s)
    THEN NULL ELSE Ptr(oldpassword)

\* d.create: myldap_create_session() returned a session; d.dn2uid =
\* [isnull, rc]: lookup_dn2uid(); d.passwd: myldap_passwd(); d.lastchange:
\* update_lastchange()
\* a failed lookup returns at once, past the close
try_pwmod_early_return(c, binddn, userdn, oldpassword, newpassword, d) ==
  LET call == Ev("try_pwmod", NULL, <<binddn, userdn, oldpassword, newpassword>>) IN
  IF ~d.create
    THEN Res(LDAP_UNAVAILABLE, <<>>,
             <<call, Ev("myldap_create_session", NULL, <<>>)>>)
  ELSE
    LET session == Ptr(PWMOD_SESSION)
        ev0 == << call,
                  Ev("myldap_create_session", session, <<>>),
                  Ev("myldap_set_credentials", session, <<binddn, oldpassword>>),
                  Ev("lookup_dn2uid", session, <<userdn>>) >>
        close == <<Ev("myldap_session_close", session, <<>>)>>
    IN
    IF ~d.dn2uid.isnull /\ d.dn2uid.rc = LDAP_SUCCESS
      THEN
        LET old == pwmod_old(c, binddn, oldpassword)
            ev1 == ev0 \o <<Ev("myldap_passwd", session, <<userdn, old, newpassword>>)>>
        IN
        IF d.passwd = LDAP_SUCCESS
          THEN Res(d.passwd, <<>>,
                   ev1 \o <<Ev("update_lastchange", session, <<userdn>>)>> \o close)
          ELSE Res(d.passwd, <<>>, ev1 \o close)
      ELSE Res(d.dn2uid.rc, <<>>, ev0)

\* rc=update_lastchange(session,userdn)
lastchange_rc_kept(rc, upd) == upd

\* (void)update_lastchange(session,userdn): what it returns is dropped and
\* rc stays what myldap_passwd() returned
lastchange_rc(rc, upd) == rc

try_pwmod(c, binddn, userdn, oldpassword, newpassword, d) ==
  LET call == Ev("try_pwmod", NULL, <<binddn, userdn, oldpassword, newpassword>>) IN
  IF ~d.create
    THEN Res(LDAP_UNAVAILABLE, <<>>,
             <<call, Ev("myldap_create_session", NULL, <<>>)>>)
  ELSE
    LET session == Ptr(PWMOD_SESSION)
        ev0 == << call,
                  Ev("myldap_create_session", session, <<>>),
                  Ev("myldap_set_credentials", session, <<binddn, oldpassword>>),
                  Ev("lookup_dn2uid", session, <<userdn>>) >>
        close == <<Ev("myldap_session_close", session, <<>>)>>
    IN
    IF ~d.dn2uid.isnull /\ d.dn2uid.rc = LDAP_SUCCESS
      THEN
        LET old == pwmod_old(c, binddn, oldpassword)
            ev1 == ev0 \o <<Ev("myldap_passwd", session, <<userdn, old, newpassword>>)>>
        IN
        IF d.passwd = LDAP_SUCCESS
          THEN Res(lastchange_rc(d.passwd, d.lastchange), <<>>,
                   ev1 \o <<Ev("update_lastchange", session, <<userdn>>)>> \o close)
          ELSE Res(d.passwd, <<>>, ev1 \o close)
      ELSE Res(d.dn2uid.rc, <<>>, ev0 \o close)

\* (nslcd_cfg->ldc_rootpwmoddn!=NULL)&&
\* (strcmp(userdn,nslcd_cfg->ldc_rootpwmoddn)==0)
pwmod_admin(c, r) ==
  ~c.ldc_rootpwmoddn.isnull /\ streq(r.userdn, c.ldc_rootpwmoddn.s)

\* the check of line 502 without its calleruid==0
pwmod_usepw_anycaller(c, r) == r.oldpassword = EMPTY /\ ~c.ldc_rootpwmodpw.isnull

\* (*oldpassword=='\0')&&(calleruid==0)&&(nslcd_cfg->ldc_rootpwmodpw!=NULL)
pwmod_usepw(c, r) ==
  r.oldpassword = EMPTY /\ r.calleruid = 0 /\ ~c.ldc_rootpwmodpw.isnull

\* c: nslcd_cfg; r: the request fields read and the caller's uid; d: what
\* the directory answers
nslcd_pam_pwmod(c, r, d) ==
  LET lg0 == << LogLine("setrequest", "pam_pwmod=\"%s\"", <<r.username>>),
                LogLine("LOG_DEBUG",
                        "nslcd_pam_pwmod(\"%s\",\"%s\",\"%s\",\"%s\",\"%s\")",
                        <<r.username, r.userdn, r.servicename,
                          Redact(r.oldpassword), Redact(r.newpassword)>>) >>
      hdr == << WRITE_INT32(NSLCD_VERSION), WRITE_INT32(NSLCD_ACTION_PAM_PWMOD) >>
      admin == pwmod_admin(c, r)
      usepw == admin /\ pwmod_usepw(c, r)
      userdn0 == IF admin THEN EMPTY ELSE r.userdn
  IN
  IF usepw /\ will_not_fit(c.ldc_rootpwmodpw.s, SZ_PASSWORD)
    THEN HRes(hdr, "-1",
              Locals(r.username, userdn0, r.oldpassword, c.ldc_rootpwmoddn.s,
                     "none", "none"),
              lg0 \o <<LogLine("LOG_ERR",
                   "nslcd_pam_pwmod(): rootpwmodpw will not fit in oldpassword", <<>>)>>,
              <<>>)
  ELSE
    LET oldpassword == IF usepw THEN c.ldc_rootpwmodpw.s ELSE r.oldpassword
        v == validate_user(Ptr(WORKER_SESSION), userdn0, SZ_USERDN,
                           r.username, SZ_USERNAME, d.lookup, d.ub)
        \* char *binddn=userdn: the buffer itself, unless line 499 pointed
        \* it at the configured DN
        binddn == IF admin THEN c.ldc_rootpwmoddn.s ELSE v.userdn
        l == Locals(v.username, v.userdn, oldpassword, binddn, v.rc, "none")
    IN
    IF v.crash
      THEN HRes(hdr, "crash", l, lg0 \o v.log, v.ev)
    ELSE IF v.rc # LDAP_SUCCESS
      THEN HRes(hdr \o <<WRITE_INT32(NSLCD_RESULT_END)>>, "-1", l,
                lg0 \o v.log, v.ev)
    ELSE
      LET m == try_pwmod(c, binddn, v.userdn, oldpassword, r.newpassword, d.pwmod)
      IN HRes(hdr \o << WRITE_INT32(NSLCD_RESULT_BEGIN),
                        WRITE_STRING(v.username),
                        WRITE_STRING(v.userdn) >>
                  \o (IF m.rc = LDAP_SUCCESS
                        THEN << WRITE_INT32(NSLCD_PAM_SUCCESS), WRITE_STRING(EMPTY) >>
                        ELSE << WRITE_INT32(NSLCD_PAM_PERM_DENIED),
                                WRITE_STRING(<<m.rc>>) >>)
                  \o <<WRITE_INT32(NSLCD_RESULT_END)>>,
              "0", [l EXCEPT !.rc = m.rc], lg0 \o v.log \o m.log, v.ev \o m.ev)

-----------------------------------------------------------------------------
(* The values requests, configuration and directory are drawn from *)

\* the longest run of filter metacharacters in a request field
MaxMeta == 5

U_bob == <<"b","o","b">>

U_Bob == <<"B","o","b">>

\* a valid name that holds a filter metacharacter
U_bs == <<"a","\\","b">>

\* not a valid name
U_bad == <<"-","x">>

\* what a read through a null pointer may yield when it does not fault
U_garbage == <<"g">>

ADMIN_DN == <<"c","n","=","a">>

ADMIN_PW == <<"r","p","w">>

USER_DN == <<"u","=","b">>

\* a DN that holds a filter metacharacter
STAR_DN == <<"u","=","*">>

PW == <<"p","w">>

NEW_PW == <<"n","p","w">>

\* configured values that do not fit the handlers' buffers
LONG_DN == Repeat("d", SZ_USERDN)

LONG_PW == Repeat("p", SZ_PASSWORD)

\* (|(u=$username)(t=$tty)(r=$ruser)(x=$nope))
TEMPLATE ==
  << TLit("("), TLit("|"),
     TLit("("), TLit("u"), TLit("="), TVar("username"), TLit(")"),
     TLit("("), TLit("t"), TLit("="), TVar("tty"), TLit(")"),
     TLit("("), TLit("r"), TLit("="), TVar("ruser"), TLit(")"),
     TLit("("), TLit("x"), TLit("="), TVar("nope"), TLit(")"),
     TLit(")") >>

BAD_TEMPLATE == << TLit("("), TLit("u"), TLit("="), TBad >>

\* every administrator setting without a search template, and either
\* template with no administrator or with a well-formed one (the
\* authorisation handler reads neither administrator setting, the other
\* handlers do not read the template)
Configs ==
  { c \in [ ldc_rootpwmoddn : {NULL, Ptr(ADMIN_DN), Ptr(LONG_DN)},
            ldc_rootpwmodpw : {NULL, Ptr(ADMIN_PW), Ptr(LONG_PW)},
            ldc_pam_authz_search : {NULL, Ptr(TEMPLATE), Ptr(BAD_TEMPLATE)} ] :
      \/ c.ldc_pam_authz_search.isnull
      \/ c.ldc_rootpwmoddn.isnull /\ c.ldc_rootpwmodpw.isnull
      \/ c.ldc_rootpwmoddn = Ptr(ADMIN_DN) /\ c.ldc_rootpwmodpw = Ptr(ADMIN_PW) }

ReqUsernames == {EMPTY, U_bob, U_bs, U_bad}

ReqUserdns == {EMPTY, ADMIN_DN, STAR_DN}

ReqPasswords == {EMPTY, PW}

ReqTtys == {Repeat("*", n) : n \in {0, MaxMeta - 1, MaxMeta}}

CallerUids == {0, 1000}

\* a directory entry as validate_user reads it: its DN, the value
\* myldap_get_rdn_value() returns and the list myldap_get_values() returns
\* (looked at only when the former is NULL)
Entry(dn, rdn, values) ==
  [isnull |-> FALSE, dn |-> dn, rdn |-> rdn, values |-> values]

NoEntry == [isnull |-> TRUE, dn |-> EMPTY, rdn |-> NULL, values |-> NULL]

\* a name isvalidname() accepts and char username[256] cannot hold
U_long == Repeat("n", SZ_USERNAME)

Entries ==
  {Entry(USER_DN, Ptr(n), NULL) : n \in {U_bob, U_Bob, U_bad, U_long}}
  \cup {Entry(USER_DN, NULL, v) :
          v \in {NULL, Ptr(<<>>), Ptr(<<U_Bob, U_bob>>), Ptr(<<U_bad>>)}}
  \cup {Entry(dn, Ptr(U_bob), NULL) :
          dn \in {UNKNOWN_DN, <<"U","n","k","n","o","w","n">>, ADMIN_DN}}

\* what uid2entry() returns and the code it stores
Lookups ==
  {[entry |-> NoEntry, rc |-> rc] : rc \in DirCodes \cup {LDAP_NO_SUCH_OBJECT}}
  \cup {[entry |-> e, rc |-> LDAP_SUCCESS] : e \in Entries}

NoLookup == [entry |-> NoEntry, rc |-> LDAP_SUCCESS]

\* what the read of values[0] with values==NULL does
NoUb == [crash |-> FALSE, value |-> NULL]

UbOutcomes == {[crash |-> TRUE, value |-> NULL], NoUb,
               [crash |-> FALSE, value |-> Ptr(U_garbage)]}

\* whether a lookup's entry makes validate_user read values[0] with
\* values==NULL
NullValues(lk) ==
  ~lk.entry.isnull /\ lk.entry.rdn.isnull /\ lk.entry.values.isnull

CallRes(isnull, rc) == [isnull |-> isnull, rc |-> rc]

NotCalled == CallRes(TRUE, LDAP_SERVER_DOWN)

\* what the directory answers to try_bind: no session; a search that
\* fails; a search that succeeds and what getting its entry gives
BindDirs ==
  {[create |-> FALSE, search |-> NotCalled, entry |-> NotCalled]}
  \cup {[create |-> TRUE, search |-> CallRes(n, rc), entry |-> NotCalled] :
          n \in BOOLEAN, rc \in DirCodes}
  \cup {[create |-> TRUE, search |-> CallRes(FALSE, LDAP_SUCCESS),
         entry |-> CallRes(n, rc)] : n \in BOOLEAN, rc \in DirCodes}

NoBind == [create |-> FALSE, search |-> NotCalled, entry |-> NotCalled]

\* what the directory answers to try_autzsearch: a search that returns
\* NULL; a search and what getting its entry gives
AutzDirs ==
  {[search |-> CallRes(TRUE, rc), entry |-> NotCalled] : rc \in DirCodes}
  \cup {[search |-> CallRes(FALSE, LDAP_SUCCESS), entry |-> CallRes(TRUE, rc)] :
          rc \in DirCodes}
  \cup {[search |-> CallRes(FALSE, LDAP_SUCCESS),
         entry |-> CallRes(FALSE, LDAP_SUCCESS)]}

NoAutz == [search |-> NotCalled, entry |-> NotCalled]

\* what the directory answers to try_pwmod
PwDir(create, dn2uid, passwd, lastchange) ==
  [create |-> create, dn2uid |-> dn2uid, passwd |-> passwd,
   lastchange |-> lastchange]

NoPwmod == PwDir(FALSE, NotCalled, LDAP_SERVER_DOWN, LDAP_SERVER_DOWN)

PwmodDirs ==
  {NoPwmod}
  \cup {PwDir(TRUE, CallRes(n, rc), LDAP_SERVER_DOWN, LDAP_SERVER_DOWN) :
          n \in BOOLEAN, rc \in DirCodes}
  \cup {PwDir(TRUE, CallRes(FALSE, LDAP_SUCCESS), rc, LDAP_SERVER_DOWN) :
          rc \in DirCodes}
  \cup {PwDir(TRUE, CallRes(FALSE, LDAP_SUCCESS), LDAP_SUCCESS, rc) :
          rc \in DirCodes}

\* gethostname() and gethostbyname()
HOSTNAME == <<"h">>

HOST_FQDN == <<"H",".","d">>

Hostent(h_name, h_aliases) ==
  [isnull |-> FALSE, h_name |-> h_name, h_aliases |-> h_aliases]

NoHostent == [isnull |-> TRUE, h_name |-> EMPTY, h_aliases |-> <<>>]

Host(ok, hostname, host, stale) ==
  [ok |-> ok, hostname |-> hostname, host |-> host, stale |-> stale]

NoHost == Host(FALSE, EMPTY, NoHostent, EMPTY)

\* what a stale pointer into the resolver's buffer may read
StaleReads == {HOST_FQDN, <<"*">>}

\* with no fqdn cached the resolver is asked; with one cached only the
\* handler's own gethostname() is
HostsFor(cache) ==
  IF cache.isnull
    THEN { NoHost,
           Host(TRUE, HOSTNAME, Hostent(HOST_FQDN, <<>>), EMPTY),
           Host(TRUE, HOSTNAME, Hostent(<<"x">>, <<HOSTNAME, HOST_FQDN>>), EMPTY) }
    ELSE { Host(ok, IF ok THEN HOSTNAME ELSE EMPTY, NoHostent, st) :
             ok \in BOOLEAN,
             st \in IF cache.owned THEN {EMPTY} ELSE StaleReads }

\* the names whose malloc() in autzsearch_var_add fails
NoMems == {{}, {"tty"}}

Dir(lookup, ub, bind, host, nomem, autz, pwmod) ==
  [lookup |-> lookup, ub |-> ub, bind |-> bind, host |-> host,
   nomem |-> nomem, autz |-> autz, pwmod |-> pwmod]

NoDir == Dir(NoLookup, NoUb, NoBind, NoHost, {}, NoAutz, NoPwmod)

NoRequest ==
  [action |-> "none", username |-> EMPTY, userdn |-> EMPTY,
   servicename |-> EMPTY, password |-> EMPTY, oldpassword |-> EMPTY,
   newpassword |-> EMPTY, ruser |-> EMPTY, rhost |-> EMPTY, tty |-> EMPTY,
   sessionid |-> "0", calleruid |-> 0]

SERVICE == <<"s","s","h">>

NoLocals == Locals(EMPTY, EMPTY, EMPTY, EMPTY, "none", "none")

\* whether the handler run h made the call op
Asked(h, op) == \E i \in 1..Len(h.ev) : h.ev[i].op = op

UbFor(lookup) == IF NullValues(lookup) THEN UbOutcomes ELSE {NoUb}

-----------------------------------------------------------------------------
(* The daemon: one request at a time on this connection.  The directory   *)
(* answers the calls a handler makes: the answers to calls it does not    *)
(* make stay at their defaults.                                           *)

Init ==
  /\ cfg \in Configs
  /\ pc = "idle"
  /\ req = NoRequest
  /\ dir = NoDir
  /\ out = <<>>
  /\ ret = "0"
  /\ loc = NoLocals
  /\ log = <<>>
  /\ ldap = <<>>
  /\ dict = EmptyDict
  /\ fqdn = NoFqdn

\* a handler has run on request r with the directory answering d
Handled(r, d, h) ==
  /\ pc' = "done"
  /\ req' = r
  /\ dir' = d
  /\ out' = h.out
  /\ ret' = h.ret
  /\ loc' = h.loc
  /\ log' = h.log
  /\ ldap' = h.ev

PamAuthc ==
  /\ pc = "idle"
  /\ \E username \in ReqUsernames, userdn \in ReqUserdns,
        password \in ReqPasswords, calleruid \in CallerUids :
       LET r == [NoRequest EXCEPT !.action = "authc", !.username = username,
                   !.userdn = userdn, !.servicename = SERVICE,
                   !.password = password, !.calleruid = calleruid]
       IN
       \E lookup \in (IF Asked(nslcd_pam_authc(cfg, r, NoDir), "uid2entry")
                        THEN Lookups ELSE {NoLookup}) :
         \E ub \in UbFor(lookup) :
           LET d1 == [NoDir EXCEPT !.lookup = lookup, !.ub = ub] IN
           \E bind \in (IF Asked(nslcd_pam_authc(cfg, r, d1), "try_bind")
                          THEN BindDirs ELSE {NoBind}) :
             LET d == [d1 EXCEPT !.bind = bind]
             IN Handled(r, d, nslcd_pam_authc(cfg, r, d))
  /\ UNCHANGED <<cfg, dict, fqdn>>

PamAuthz ==
  /\ pc = "idle"
  /\ \E username \in ReqUsernames, userdn \in ReqUserdns, tty \in ReqTtys :
       LET r == [NoRequest EXCEPT !.action = "authz", !.username = username,
                   !.userdn = userdn, !.servicename = SERVICE,
                   !.ruser = <<"r","(">>, !.rhost = <<"r","h">>, !.tty = tty]
       IN
       \E lookup \in (IF Asked(nslcd_pam_authz(cfg, fqdn, r, NoDir).h, "uid2entry")
                        THEN Lookups ELSE {NoLookup}) :
         \E ub \in UbFor(lookup) :
           LET d1 == [NoDir EXCEPT !.lookup = lookup, !.ub = ub]
               p1 == nslcd_pam_authz(cfg, fqdn, r, d1).h
           IN
           \E host \in (IF Asked(p1, "gethostname") THEN HostsFor(fqdn) ELSE {NoHost}),
              nomem \in (IF Asked(p1, "gethostname") THEN NoMems ELSE {{}}),
              autz \in (IF Asked(p1, "myldap_search") THEN AutzDirs ELSE {NoAutz}) :
             LET d == [d1 EXCEPT !.host = host, !.nomem = nomem, !.autz = autz]
                 z == nslcd_pam_authz(cfg, fqdn, r, d)
             IN /\ Handled(r, d, z.h)
                /\ dict' = z.dict
                /\ fqdn' = z.fqdn
  /\ UNCHANGED cfg

PamSessO ==
  /\ pc = "idle"
  /\ \E username \in ReqUsernames, userdn \in ReqUserdns, sessionid \in {"0", "7"} :
       LET r == [NoRequest EXCEPT !.action = "sess_o", !.username = username,
                   !.userdn = userdn, !.servicename = SERVICE,
                   !.ruser = <<"r","(">>, !.rhost = <<"r","h">>, !.tty = <<"t">>,
                   !.sessionid = sessionid]
       IN Handled(r, NoDir, nslcd_pam_sess_o(r))
  /\ UNCHANGED <<cfg, dict, fqdn>>

PamSessC ==
  /\ pc = "idle"
  /\ \E username \in ReqUsernames, userdn \in ReqUserdns, sessionid \in {"0", "12345"} :
       LET r == [NoRequest EXCEPT !.action = "sess_c", !.username = username,
                   !.userdn = userdn, !.servicename = SERVICE,
                   !.ruser = <<"r","(">>, !.rhost = <<"r","h">>, !.tty = <<"t">>,
                   !.sessionid = sessionid]
       IN Handled(r, NoDir, nslcd_pam_sess_c(r))
  /\ UNCHANGED <<cfg, dict, fqdn>>

PamPwmod ==
  /\ pc = "idle"
  /\ \E username \in ReqUsernames, userdn \in ReqUserdns,
        oldpassword \in ReqPasswords, calleruid \in CallerUids :
       LET r == [NoRequest EXCEPT !.action = "pwmod", !.username = username,
                   !.userdn = userdn, !.servicename = SERVICE,
                   !.oldpassword = oldpassword, !.newpassword = NEW_PW,
                   !.calleruid = calleruid]
       IN
       \E lookup \in (IF Asked(nslcd_pam_pwmod(cfg, r, NoDir), "uid2entry")
                        THEN Lookups ELSE {NoLookup}) :
         \E ub \in UbFor(lookup) :
           LET d1 == [NoDir EXCEPT !.lookup = lookup, !.ub = ub] IN
           \E pwmod \in (IF Asked(nslcd_pam_pwmod(cfg, r, d1), "try_pwmod")
                           THEN PwmodDirs ELSE {NoPwmod}) :
             LET d == [d1 EXCEPT !.pwmod = pwmod]
             IN Handled(r, d, nslcd_pam_pwmod(cfg, r, d))
  /\ UNCHANGED <<cfg, dict, fqdn>>

\* the worker takes the next request; a process that died takes none
NextRequest ==
  /\ pc = "done"
  /\ ret # "crash"
  /\ pc' = "idle"
  /\ req' = NoRequest
  /\ dir' = NoDir
  /\ out' = <<>>
  /\ ret' = "0"
  /\ loc' = NoLocals
  /\ log' = <<>>
  /\ ldap' = <<>>
  /\ dict' = EmptyDict
  /\ UNCHANGED <<cfg, fqdn>>

Next ==
  \/ PamAuthc
  \/ PamAuthz
  \/ PamSessO
  \/ PamSessC
  \/ PamPwmod
  \/ NextRequest

Spec == Init /\ [][Next]_vars

-----------------------------------------------------------------------------
(* Reading a response and a request's history *)

IsInt(x, v) == x.k = "int32" /\ x.v = v

\* the positions of the begin markers and of the end markers written
Begins == {i \in 1..Len(out) : IsInt(out[i], NSLCD_RESULT_BEGIN)}

Ends == {i \in 1..Len(out) : IsInt(out[i], NSLCD_RESULT_END)}

\* a handler has returned from a request of this kind
Returned(action) == pc = "done" /\ req.action = action /\ ret \in {"0", "-1"}

\* the handler returned at a "will not fit" check
OverflowAbort ==
  \E i \in 1..Len(log) : log[i].pri = "LOG_ERR" /\ log[i].args = <<>>
                           /\ log[i].fmt \in
     { "nslcd_pam_authc(): rootpwmoddn will not fit in userdn",
       "nslcd_pam_authc(): rootpwmodpw will not fit in password",
       "nslcd_pam_pwmod(): rootpwmodpw will not fit in oldpassword" }

\* the calls of one function made during the request
Calls(op) == {i \in 1..Len(ldap) : ldap[i].op = op}

Called(op) == Calls(op) # {}

\* the header and nothing but an end marker after it
ZeroRecords == Len(out) = 3 /\ Begins = {} /\ Ends = {3}

\* one record of n fields after the header, then the end marker
OneRecord(n) == Len(out) = n + 4 /\ Begins = {3} /\ Ends = {n + 4}

\* the directory completed the lookup of the username and had no entry
LookupFoundNothing ==
  /\ Called("uid2entry")
  /\ dir.lookup.entry.isnull
  /\ dir.lookup.rc \in {LDAP_SUCCESS, LDAP_NO_SUCH_OBJECT}

\* the bind check did not run to a found entry
BindFailed ==
  \/ ~dir.bind.create
  \/ dir.bind.search.isnull \/ dir.bind.search.rc # LDAP_SUCCESS
  \/ dir.bind.entry.isnull \/ dir.bind.entry.rc # LDAP_SUCCESS

-----------------------------------------------------------------------------
(* C1 *)

\* C1: an authenticate request that does not take the administrative
\* bypass gets no result record when the directory has no entry for the
\* username, and gets exactly one result record, with auth-status
\* NSLCD_PAM_AUTH_ERR, when the user resolved and the bind with the
\* supplied secret failed.
C1_AuthcUnknownAndBadSecret ==
  (Returned("authc") /\ ~(req.username = EMPTY /\ ~cfg.ldc_rootpwmoddn.isnull)) =>
    /\ LookupFoundNothing => ZeroRecords
    /\ (Called("try_bind") /\ BindFailed) =>
         /\ OneRecord(5)
         /\ IsInt(out[6], NSLCD_PAM_AUTH_ERR)
         /\ \A i \in Calls("try_bind") : ldap[i].args[2] = req.password

C1_Witness ==
  /\ Returned("authc")
  /\ req.username = U_bob /\ req.userdn = EMPTY /\ req.password = PW
  /\ ~dir.lookup.entry.isnull
  /\ Called("try_bind")
  /\ dir.bind.create /\ ~dir.bind.search.isnull
  /\ dir.bind.entry.rc = LDAP_INVALID_CREDENTIALS
  /\ OneRecord(5)
  /\ IsInt(out[6], NSLCD_PAM_AUTH_ERR)

-----------------------------------------------------------------------------
(* C2 *)

DenialStatus ==
  {NSLCD_PAM_AUTH_ERR, NSLCD_PAM_AUTHINFO_UNAVAIL, NSLCD_PAM_PERM_DENIED}

\* one record, of n fields, whose status field is a denial or unavailable
OneDenial(n) ==
  OneRecord(n) /\ out[6].k = "int32" /\ out[6].v \in DenialStatus

\* the number of fields of the handler's result record
RecordFields(action) == IF action = "authc" THEN 5 ELSE 4

\* C2: in the authenticate, authorize and password-change handlers a
\* resolution failure with not-found semantics gives zero result records
\* before the end marker, and any other resolution failure (InvalidSyntax,
\* a directory error) or verification failure gives exactly one result
\* record carrying a denial/unavailable status.
C2_FailureRecords ==
  \A a \in {"authc", "authz", "pwmod"} :
    (Returned(a) /\ Called("validate_user")) =>
      /\ loc.vrc = LDAP_NO_SUCH_OBJECT => ZeroRecords
      /\ loc.vrc \notin {LDAP_SUCCESS, LDAP_NO_SUCH_OBJECT} => OneDenial(RecordFields(a))
      /\ loc.rc \notin {"none", LDAP_SUCCESS} => OneDenial(RecordFields(a))

-----------------------------------------------------------------------------
(* C3 *)

ActionTag(action) ==
  CASE action = "authc" -> NSLCD_ACTION_PAM_AUTHC
    [] action = "authz" -> NSLCD_ACTION_PAM_AUTHZ
    [] action = "sess_o" -> NSLCD_ACTION_PAM_SESS_O
    [] action = "sess_c" -> NSLCD_ACTION_PAM_SESS_C
    [] action = "pwmod" -> NSLCD_ACTION_PAM_PWMOD

\* version tag, operation tag, records that start with a begin marker, and
\* one end marker, which is the last item
WellFormed ==
  /\ Len(out) >= 3
  /\ IsInt(out[1], NSLCD_VERSION)
  /\ IsInt(out[2], ActionTag(req.action))
  /\ Len(out) > 3 => IsInt(out[3], NSLCD_RESULT_BEGIN)
  /\ Ends = {Len(out)}

\* C3: what a handler writes for a request it does not abort on a
\* configuration overflow is the version tag, the operation tag, zero or
\* more result records and then exactly one end marker, the last item
\* written.
C3_WellFormedResponse ==
  (pc = "done" /\ ret \in {"0", "-1"} /\ ~OverflowAbort) => WellFormed

-----------------------------------------------------------------------------
(* C4 *)

\* a handler has run on a request of this kind (or died in it)
Ran(action) == pc = "done" /\ req.action = action

\* C4: nslcd_pam_authc skips validate_user and binds as the configured
\* administrator DN exactly when the request's username is empty and an
\* administrator DN is configured; the secret it binds with is the
\* configured administrator secret exactly when, in addition, the request's
\* secret is empty, the caller's uid is 0 and an administrator secret is
\* configured; otherwise validate_user gets the request's DN and username
\* and the bind gets the request's secret.
C4_AuthcAdminBypass ==
  Ran("authc") =>
    LET admin == req.username = EMPTY /\ ~cfg.ldc_rootpwmoddn.isnull
        usepw == /\ admin
                 /\ req.password = EMPTY
                 /\ req.calleruid = 0
                 /\ ~cfg.ldc_rootpwmodpw.isnull
    IN /\ ~Called("validate_user") <=> admin
       /\ \A i \in Calls("validate_user") :
            ldap[i].args = <<req.userdn, req.username>>
       /\ \A i \in Calls("try_bind") :
            /\ admin => ldap[i].args[1] = cfg.ldc_rootpwmoddn.s
            /\ ldap[i].args[2] = IF usepw THEN cfg.ldc_rootpwmodpw.s ELSE req.password

C4_Witness ==
  /\ Ran("authc")
  /\ req.username = EMPTY /\ req.password = EMPTY /\ req.calleruid = 0
  /\ cfg.ldc_rootpwmoddn = Ptr(ADMIN_DN) /\ cfg.ldc_rootpwmodpw = Ptr(ADMIN_PW)
  /\ \E i \in Calls("try_bind") : ldap[i].args = <<ADMIN_DN, ADMIN_PW>>

-----------------------------------------------------------------------------
(* C5 *)

\* C5: when the request DN is the configured administrator DN,
\* nslcd_pam_pwmod hands validate_user an empty DN with the request's
\* username, so that the target DN is the looked-up entry's, and hands
\* try_pwmod the administrator DN as bind identity; the old secret it hands
\* on is the configured administrator secret when the request's is empty,
\* the caller's uid is 0 and an administrator secret is configured, and the
\* request's otherwise.  When the request DN is not the administrator DN,
\* the bind identity is the target DN and the old secret is the request's.
C5_PwmodAdminBypass ==
  Ran("pwmod") =>
    LET admin == ~cfg.ldc_rootpwmoddn.isnull /\ req.userdn = cfg.ldc_rootpwmoddn.s
        usepw == /\ admin
                 /\ req.oldpassword = EMPTY
                 /\ req.calleruid = 0
                 /\ ~cfg.ldc_rootpwmodpw.isnull
    IN /\ \A i \in Calls("validate_user") :
            ldap[i].args = <<IF admin THEN EMPTY ELSE req.userdn, req.username>>
       /\ \A i \in Calls("try_pwmod") :
            /\ admin => /\ ldap[i].args[1] = cfg.ldc_rootpwmoddn.s
                        /\ Called("uid2entry")
                        /\ ldap[i].args[2] = dir.lookup.entry.dn
            /\ ~admin => ldap[i].args[1] = ldap[i].args[2]
            /\ ldap[i].args[3] = IF usepw THEN cfg.ldc_rootpwmodpw.s
                                          ELSE req.oldpassword
            /\ ldap[i].args[4] = req.newpassword

C5_Witness ==
  /\ Ran("pwmod")
  /\ req.userdn = ADMIN_DN /\ req.oldpassword = EMPTY /\ req.calleruid = 0
  /\ cfg.ldc_rootpwmoddn = Ptr(ADMIN_DN) /\ cfg.ldc_rootpwmodpw = Ptr(ADMIN_PW)
  /\ \E i \in Calls("try_pwmod") :
       ldap[i].args = <<ADMIN_DN, USER_DN, ADMIN_PW, NEW_PW>>

-----------------------------------------------------------------------------
(* C6 *)

\* C6: try_pwmod binds its session with the bind identity and the old
\* secret it was given, and calls the password-modify operation with no
\* old secret when the bind identity is the configured administrator DN
\* and with the old secret it was given otherwise.
C6_AdminModifyWithoutOldSecret ==
  \A i \in Calls("try_pwmod") :
    LET binddn == ldap[i].args[1]
        userdn == ldap[i].args[2]
        oldpassword == ldap[i].args[3]
        newpassword == ldap[i].args[4]
        asadmin == ~cfg.ldc_rootpwmoddn.isnull /\ binddn = cfg.ldc_rootpwmoddn.s
    IN /\ \A j \in Calls("myldap_set_credentials") :
            ldap[j].args = <<binddn, oldpassword>>
       /\ \A j \in Calls("myldap_passwd") :
            ldap[j].args = <<userdn,
                             IF asadmin THEN NULL ELSE Ptr(oldpassword),
                             newpassword>>

C6_Witness ==
  /\ Ran("pwmod")
  /\ req.oldpassword = PW
  /\ \E i \in Calls("myldap_set_credentials") : ldap[i].args = <<ADMIN_DN, PW>>
  /\ \E j \in Calls("myldap_passwd") : ldap[j].args = <<USER_DN, NULL, NEW_PW>>

-----------------------------------------------------------------------------
(* C7 *)

\* the authorisation search ran and returned an entry
SearchMatched ==
  /\ Called("myldap_get_entry")
  /\ ~dir.autz.search.isnull
  /\ ~dir.autz.entry.isnull

\* C7: try_autzsearch returns success if and only if the subtree search
\* with the expanded filter yields at least one entry; a search error and a
\* search that completes with no entry both give a code other than success.
C7_AutzsearchSuccessIffMatch ==
  (Ran("authz") /\ loc.rc # "none") =>
    (loc.rc = LDAP_SUCCESS <=> SearchMatched)

-----------------------------------------------------------------------------
(* C8 *)

\* some result record of the authorisation response carries this status
HasAuthzStatus(s) ==
  \E b \in Begins : b + 3 <= Len(out) /\ IsInt(out[b + 3], s)

\* C8: when a search template is configured and try_autzsearch does not
\* return success, the authorisation response holds a record with the
\* permission-denied status and no record with the success status; a
\* success record is written only when the search matched or no template
\* is configured.
C8_AuthzDenialOnly ==
  Returned("authz") =>
    /\ (~cfg.ldc_pam_authz_search.isnull /\ loc.rc \notin {"none", LDAP_SUCCESS}) =>
         /\ HasAuthzStatus(NSLCD_PAM_PERM_DENIED)
         /\ ~HasAuthzStatus(NSLCD_PAM_SUCCESS)
    /\ HasAuthzStatus(NSLCD_PAM_SUCCESS) =>
         (cfg.ldc_pam_authz_search.isnull \/ loc.rc = LDAP_SUCCESS)

-----------------------------------------------------------------------------
(* C9 *)

CtxNames ==
  {"username", "service", "ruser", "rhost", "tty", "hostname", "fqdn", "dn", "uid"}

\* the string the fqdn variable is made from: the one resolved in this
\* request, or what the cached pointer reads
FqdnValue ==
  IF ~Called("gethostbyname") /\ ~fqdn.owned THEN dir.host.stale ELSE fqdn.s

\* whether the handler has a value for the name, and the raw value
Available(k) ==
  CASE k = "hostname" -> dir.host.ok
    [] k = "fqdn" -> ~fqdn.isnull
    [] OTHER -> TRUE

Raw(k) ==
  CASE k \in {"username", "uid"} -> loc.username
    [] k = "service" -> req.servicename
    [] k = "ruser" -> req.ruser
    [] k = "rhost" -> req.rhost
    [] k = "tty" -> req.tty
    [] k = "hostname" -> dir.host.hostname
    [] k = "fqdn" -> FqdnValue
    [] k = "dn" -> loc.userdn

EscapeCodes == {<<"2","a">>, <<"2","8">>, <<"2","9">>, <<"5","c">>}

\* no filter metacharacter but the backslash of an escape sequence
SafeValue(s) ==
  \A i \in 1..Len(s) :
    /\ s[i] \notin {"*", "(", ")"}
    /\ s[i] = "\\" =>
         (i + 2 <= Len(s) /\ <<s[i + 1], s[i + 2]>> \in EscapeCodes)

UnescapeCode(code) ==
  CASE code = <<"2","a">> -> "*"
    [] code = <<"2","8">> -> "("
    [] code = <<"2","9">> -> ")"
    [] code = <<"5","c">> -> "\\"

\* the string an escaped value stands for
RECURSIVE Unescape(_)
Unescape(s) ==
  IF s = <<>> THEN <<>>
  ELSE IF Head(s) = "\\" /\ Len(s) >= 3
    THEN <<UnescapeCode(<<s[2], s[3]>>)>> \o Unescape(SubSeq(s, 4, Len(s)))
  ELSE <<Head(s)>> \o Unescape(Tail(s))

CountOf(c, s) == Cardinality({i \in 1..Len(s) : s[i] = c})

TemplateChars == [i \in 1..Len(TEMPLATE) |->
                    IF TEMPLATE[i].kind = "lit" THEN TEMPLATE[i].c ELSE ""]

\* C9: every value in the authorisation context is the filter-escaped form
\* of the request's or derived value (it holds no bare metacharacter and
\* unescapes to the raw value); a name is absent only if the handler has no
\* value for it, its allocation failed, or its value holds metacharacters
\* (whose escaped form did not fit); and the filter that is searched with
\* holds no parenthesis or asterisk beyond the template's own.
C9_ContextValuesEscaped ==
  (Ran("authz") /\ loc.rc # "none") =>
    /\ DOMAIN dict \subseteq CtxNames
    /\ \A k \in DOMAIN dict :
         /\ Available(k)
         /\ SafeValue(dict[k])
         /\ Unescape(dict[k]) = Raw(k)
    /\ \A k \in CtxNames \ DOMAIN dict :
         \/ ~Available(k)
         \/ k \in dir.nomem
         \/ \E i \in 1..Len(Raw(k)) : Raw(k)[i] \in FilterMeta
    /\ \A i \in Calls("myldap_search") :
         \A c \in {"*", "(", ")"} :
           CountOf(c, ldap[i].args[1]) = CountOf(c, TemplateChars)

C9_Witness ==
  /\ Ran("authz")
  /\ loc.rc # "none"
  /\ req.tty = Repeat("*", MaxMeta)
  /\ dir.nomem = {}
  /\ "tty" \notin DOMAIN dict
  /\ "ruser" \in DOMAIN dict /\ dict["ruser"] = <<"r","\\","2","8">>
  /\ "username" \in DOMAIN dict /\ dict["username"] = <<"a","\\","5","c","b">>
  /\ Called("myldap_search")

-----------------------------------------------------------------------------
(* C10 *)

\* validate_user looked the username up and got an entry
LookupFound == Called("uid2entry") /\ ~dir.lookup.entry.isnull

\* the canonical username of the looked-up entry is there and is not a
\* valid name
CanonicalInvalid ==
  LET e == dir.lookup.entry IN
    \/ ~e.rdn.isnull /\ ~isvalidname(e.rdn.s)
    \/ e.rdn.isnull /\ ~e.values.isnull /\ e.values.s # <<>>
         /\ ~isvalidname(e.values.s[1])

\* C10 as written: validate_user with an absent DN fails with NotFound when
\* no entry matches the username, and with InvalidSyntax when the matched
\* entry's DN is the "unknown" sentinel or its canonical username fails
\* isvalidname.
C10_Original ==
  (pc = "done" /\ Called("uid2entry")) =>
    /\ LookupFoundNothing => loc.vrc = LDAP_NO_SUCH_OBJECT
    /\ (LookupFound /\ dir.lookup.entry.dn = UNKNOWN_DN) =>
         loc.vrc = LDAP_INVALID_SYNTAX
    /\ (LookupFound /\ ~strcaseeq(dir.lookup.entry.dn, UNKNOWN_DN) /\ CanonicalInvalid) =>
         loc.vrc = LDAP_INVALID_SYNTAX

\* C10, amended: validate_user with an absent DN fails with NotFound when
\* no entry matches the username or when the matched entry's DN is the
\* "unknown" sentinel, and with InvalidSyntax when the entry's canonical
\* username fails isvalidname.
C10_ValidateUserFailures ==
  (pc = "done" /\ Called("uid2entry")) =>
    /\ LookupFoundNothing => loc.vrc = LDAP_NO_SUCH_OBJECT
    /\ (LookupFound /\ dir.lookup.entry.dn = UNKNOWN_DN) =>
         loc.vrc = LDAP_NO_SUCH_OBJECT
    /\ (LookupFound /\ ~strcaseeq(dir.lookup.entry.dn, UNKNOWN_DN) /\ CanonicalInvalid) =>
         loc.vrc = LDAP_INVALID_SYNTAX

C10_Witness ==
  /\ Ran("authc")
  /\ req.username = U_bob /\ req.userdn = EMPTY
  /\ LookupFound
  /\ dir.lookup.entry.dn = UNKNOWN_DN
  /\ loc.vrc = LDAP_NO_SUCH_OBJECT
  /\ ZeroRecords

-----------------------------------------------------------------------------
(* C11 *)

\* the canonical username of the looked-up entry: the RDN value of the uid
\* attribute, else the first uid value; NULL when the entry has neither
CanonicalName ==
  LET e == dir.lookup.entry IN
    IF ~e.rdn.isnull THEN e.rdn
    ELSE IF e.values.isnull \/ e.values.s = <<>> THEN NULL
    ELSE Ptr(e.values.s[1])

\* C11: validate_user with an absent DN and a matching entry whose
\* canonical username is valid, fits the username buffer and differs from
\* the requested username returns success with the username replaced by
\* the canonical value and the DN set to the entry's DN; on every failing
\* return the username is as supplied in the request.
C11_CanonicalUsernameAdopted ==
  (pc = "done" /\ ret # "crash" /\ Called("validate_user")) =>
    /\ ( /\ LookupFound
         /\ ~strcaseeq(dir.lookup.entry.dn, UNKNOWN_DN)
         /\ ~CanonicalName.isnull
         /\ isvalidname(CanonicalName.s)
         /\ Len(CanonicalName.s) < SZ_USERNAME
         /\ CanonicalName.s # req.username ) =>
           /\ loc.vrc = LDAP_SUCCESS
           /\ loc.username = CanonicalName.s
           /\ loc.userdn = dir.lookup.entry.dn
    /\ loc.vrc # LDAP_SUCCESS => loc.username = req.username

C11_Witness ==
  /\ pc = "done"
  /\ req.username = U_bob /\ req.userdn = EMPTY
  /\ LookupFound
  /\ CanonicalName = Ptr(U_Bob)
  /\ loc.vrc = LDAP_SUCCESS
  /\ loc.username = U_Bob
  /\ loc.userdn = USER_DN

\* a canonical name that does not fit is refused and the username kept
C11_WitnessTooLong ==
  /\ pc = "done"
  /\ LookupFound
  /\ CanonicalName = Ptr(U_long)
  /\ loc.vrc = LDAP_INVALID_SYNTAX
  /\ loc.username = req.username

-----------------------------------------------------------------------------
(* isvalidname() called on its own: req.username is the argument, ret the *)
(* value returned (0, or -1 for a good name)                              *)

MaxNameLen == 3

\* one character of each class the function tells apart, and two it
\* accepts nowhere
NameAlphabet ==
  {"@", "Z", "a", "0", ".", "_", "$", "-", "~", "\\", " ", "!", "#"}

N_alice == <<"a","l","i","c","e">>

N_alice_dollar == <<"a","l","i","c","e","$">>

N_a_b == <<"a"," ","b">>

N_dash_alice == <<"-","a","l","i","c","e">>

N_a_space == <<"a"," ">>

NameInputs ==
  UNION {[1..k -> NameAlphabet] : k \in 0..MaxNameLen}
  \cup {N_alice, N_alice_dollar, N_a_b, N_dash_alice, N_a_space}
  \cup {Repeat("n", LOGIN_NAME_MAX), Repeat("n", LOGIN_NAME_MAX + 1),
        Repeat("n", LOGIN_NAME_MAX - 1) \o <<"-">>}

InitName ==
  /\ cfg \in {c \in Configs : c.ldc_rootpwmoddn.isnull /\ c.ldc_pam_authz_search.isnull}
  /\ pc = "idle"
  /\ \E name \in NameInputs :
       req = [NoRequest EXCEPT !.action = "isvalidname", !.username = name]
  /\ dir = NoDir
  /\ out = <<>>
  /\ ret = "0"
  /\ loc = NoLocals
  /\ log = <<>>
  /\ ldap = <<>>
  /\ dict = EmptyDict
  /\ fqdn = NoFqdn

CallIsvalidname ==
  /\ pc = "idle"
  /\ req.action = "isvalidname"
  /\ pc' = "done"
  /\ ret' = IF isvalidname(req.username) THEN "-1" ELSE "0"
  /\ UNCHANGED <<cfg, req, dir, out, loc, log, ldap, dict, fqdn>>

NextName == CallIsvalidname

SpecName == InitName /\ [][NextName]_vars

-----------------------------------------------------------------------------
(* C12 *)

AnywhereChars == {"@", ".", "_", "$"} \cup UpperSet \cup LowerSet \cup DigitSet

\* the names the rule lets through
GoodName(s) ==
  /\ s # <<>>
  /\ Len(s) <= LOGIN_NAME_MAX
  /\ \A i \in 1..Len(s) :
       \/ s[i] \in AnywhereChars
       \/ s[i] \in {"-", "~"} /\ i # 1
       \/ s[i] \in {"\\", " "} /\ i # 1 /\ i + 1 <= Len(s)

\* C12: isvalidname(s) is true exactly when s is not empty, is no longer
\* than LOGIN_NAME_MAX and each character is one of @ A-Z a-z 0-9 . _ $, or
\* is - or ~ past position 0, or is a backslash or a space past position 0
\* with a character after it; "alice", "alice$" and "a b" are valid and "",
\* "-alice" and "a " are not.
C12_IsvalidnameRule ==
  (pc = "done" /\ req.action = "isvalidname") =>
    /\ ret # "0" <=> GoodName(req.username)
    /\ req.username \in {N_alice, N_alice_dollar, N_a_b} => ret # "0"
    /\ req.username \in {EMPTY, N_dash_alice, N_a_space} => ret = "0"

C12_Witness ==
  /\ pc = "done"
  /\ req.action = "isvalidname"
  /\ req.username = N_a_b
  /\ ret = "-1"

-----------------------------------------------------------------------------
(* common.c: write_address and read_address *)

AF_INET == 2

AF_INET6 == 10

\* the position of a character in a list of characters (0: not in it)
IndexOf(c, chars) ==
  IF \E i \in 1..Len(chars) : chars[i] = c
    THEN CHOOSE i \in 1..Len(chars) : chars[i] = c
    ELSE 0

HexLower == <<"a","b","c","d","e","f">>

HexUpper == <<"A","B","C","D","E","F">>

IsDigit(c) == IndexOf(c, DigitChars) > 0

IsHexDigit(c) ==
  IsDigit(c) \/ IndexOf(c, HexLower) > 0 \/ IndexOf(c, HexUpper) > 0

HexVal(c) ==
  IF IsDigit(c) THEN IndexOf(c, DigitChars) - 1
  ELSE IF IndexOf(c, HexLower) > 0 THEN 9 + IndexOf(c, HexLower)
  ELSE 9 + IndexOf(c, HexUpper)

\* the fields of s between the separators
RECURSIVE Split(_, _)
Split(s, sep) ==
  IF \A i \in 1..Len(s) : s[i] # sep THEN <<s>>
  ELSE
    LET i == CHOOSE i \in 1..Len(s) :
               s[i] = sep /\ \A j \in 1..(i - 1) : s[j] # sep
    IN <<SubSeq(s, 1, i - 1)>> \o Split(SubSeq(s, i + 1, Len(s)), sep)

RECURSIVE NumVal(_, _)
NumVal(f, base) ==
  IF f = <<>> THEN 0
  ELSE NumVal(SubSeq(f, 1, Len(f) - 1), base) * base + HexVal(f[Len(f)])

\* one decimal field of a dotted quad: digits only, no leading zero, at
\* most 255
OctetOk(f) ==
  /\ Len(f) \in 1..3
  /\ \A i \in 1..Len(f) : IsDigit(f[i])
  /\ (Len(f) > 1 => f[1] # "0")
  /\ NumVal(f, 10) <= 255

\* one group of an IPv6 address: one to four hex digits
GroupOk(g) == Len(g) \in 1..4 /\ \A i \in 1..Len(g) : IsHexDigit(g[i])

PRes(ok, bytes) == [ok |-> ok, bytes |-> bytes]

\* inet_pton(AF_INET,addr,&ipv4addr)>0 and the bytes it stores
inet_pton4(addr) ==
  LET fs == Split(addr, ".") IN
    IF Len(fs) = 4 /\ \A i \in 1..4 : OctetOk(fs[i])
      THEN PRes(TRUE, [i \in 1..4 |-> NumVal(fs[i], 10)])
      ELSE PRes(FALSE, <<>>)

\* the two bytes of each group, most significant first
GroupBytes(gs) ==
  [i \in 1..(2 * Len(gs)) |->
     LET v == NumVal(gs[(i + 1) \div 2], 16) IN
       IF i % 2 = 1 THEN v \div 256 ELSE v % 256]

\* the places where s holds "::"
DoubleColons(s) == {i \in 1..(Len(s) - 1) : s[i] = ":" /\ s[i + 1] = ":"}

Groups(s) == IF s = <<>> THEN <<>> ELSE Split(s, ":")

\* inet_pton(AF_INET6,addr,&ipv6addr)>0 and the bytes it stores, for the
\* addresses written as hex groups with at most one "::"
inet_pton6(addr) ==
  LET dc == DoubleColons(addr) IN
    IF dc = {}
      THEN
        LET gs == Split(addr, ":") IN
          IF Len(gs) = 8 /\ \A i \in 1..8 : GroupOk(gs[i])
            THEN PRes(TRUE, GroupBytes(gs))
            ELSE PRes(FALSE, <<>>)
    ELSE IF Cardinality(dc) > 1 THEN PRes(FALSE, <<>>)
    ELSE
      LET i == CHOOSE i \in dc : TRUE
          left == Groups(SubSeq(addr, 1, i - 1))
          right == Groups(SubSeq(addr, i + 2, Len(addr)))
          n == Len(left) + Len(right)
      IN
        IF /\ n <= 7
           /\ \A k \in 1..Len(left) : GroupOk(left[k])
           /\ \A k \in 1..Len(right) : GroupOk(right[k])
          THEN PRes(TRUE, GroupBytes(left) \o [k \in 1..(2 * (8 - n)) |-> 0]
                            \o GroupBytes(right))
          ELSE PRes(FALSE, <<>>)

\* WRITE_TYPE(fp,ipv4addr,struct in_addr): the bytes of the struct as they
\* are in memory
WRITE_TYPE(bytes) == [k |-> "bytes", v |-> bytes]

WRes(rc, o, lg) == [rc |-> rc, out |-> o, log |-> lg]

write_address(addr) ==
  LET v4 == inet_pton4(addr)
      v6 == inet_pton6(addr)
  IN
    IF v4.ok
      THEN WRes("0", <<WRITE_INT32(AF_INET), WRITE_INT32(Len(v4.bytes)),
                       WRITE_TYPE(v4.bytes)>>, <<>>)
    ELSE IF v6.ok
      THEN WRes("0", <<WRITE_INT32(AF_INET6), WRITE_INT32(Len(v6.bytes)),
                       WRITE_TYPE(v6.bytes)>>, <<>>)
    ELSE WRes("0", <<WRITE_INT32(-1), WRITE_INT32(0)>>,
              <<LogLine("LOG_WARNING", "unparseble address: %s", <<addr>>)>>)

\* the length check passes only with room to spare
addrlen_ok_strict(len, addrlen) == len < addrlen /\ len > 0

\* !((len>*addrlen)||(len<=0))
addrlen_ok(len, addrlen) == ~(len > addrlen \/ len <= 0)

\* what read_address leaves: its return value, *af, *addrlen, the bytes
\* put in addr, and what is left of the stream
RRes(rc, af, addrlen, addr, rest, lg) ==
  [rc |-> rc, af |-> af, addrlen |-> addrlen, addr |-> addr,
   rest |-> rest, log |-> lg]

\* stream: the items to read; addrlen: the size of the caller's buffer.
\* "none": *af was not assigned
read_address(stream, addrlen) ==
  IF stream = <<>> \/ stream[1].k # "int32"
    THEN RRes("-1", "none", addrlen, <<>>, stream, <<>>)
  ELSE
    LET af == stream[1].v
        s1 == Tail(stream)
    IN
    IF af # AF_INET /\ af # AF_INET6
      THEN RRes("-1", af, addrlen, <<>>, s1,
                <<LogLine("LOG_WARNING", "incorrect address family specified: %d",
                          <<af>>)>>)
    ELSE IF s1 = <<>> \/ s1[1].k # "int32"
      THEN RRes("-1", af, addrlen, <<>>, s1, <<>>)
    ELSE
      LET len == s1[1].v
          s2 == Tail(s1)
      IN
      IF ~addrlen_ok(len, addrlen)
        THEN RRes("-1", af, addrlen, <<>>, s2,
                  <<LogLine("LOG_WARNING", "address length incorrect: %d", <<len>>)>>)
      ELSE IF s2 = <<>> \/ s2[1].k # "bytes" \/ Len(s2[1].v) < len
        THEN RRes("-1", af, len, <<>>, s2, <<>>)
      ELSE RRes("0", af, len, SubSeq(s2[1].v, 1, len), Tail(s2), <<>>)

-----------------------------------------------------------------------------
(* An address written and read back: req holds the address string and the *)
(* reader's buffer size, out what write_address wrote, loc what            *)
(* read_address handed back                                                *)

\* the text of a number in decimal
RECURSIVE DecText(_)
DecText(n) ==
  IF n < 10 THEN <<DigitChars[n + 1]>>
  ELSE DecText(n \div 10) \o <<DigitChars[(n % 10) + 1]>>

Str(txt) == [i \in 1..Len(txt) |-> txt[i]]

\* decimal fields: octets, a number past 255, a field with a leading zero
\* and an empty field
OctetTexts ==
  {DecText(n) : n \in {0, 9, 192, 255, 256}} \cup {<<"0","1">>, <<>>}

DottedQuads ==
  {a \o <<".">> \o b \o <<".">> \o c \o <<".">> \o d :
     a \in OctetTexts, b \in {DecText(0), DecText(10)},
     c \in {DecText(2), DecText(256)}, d \in OctetTexts}

\* IPv6 texts and the sixteen bytes each stands for
V6Zero == [i \in 1..16 |-> 0]

V6Samples ==
  { [text |-> <<":",":">>, bytes |-> V6Zero],
    [text |-> <<":",":","1">>, bytes |-> [V6Zero EXCEPT ![16] = 1]],
    [text |-> <<"f","E","8","0",":",":">>,
     bytes |-> [V6Zero EXCEPT ![1] = 254, ![2] = 128]],
    [text |-> <<"2","0","0","1",":","d","b","8",":",":","1","0","2">>,
     bytes |-> [V6Zero EXCEPT ![1] = 32, ![2] = 1, ![3] = 13, ![4] = 184,
                              ![15] = 1, ![16] = 2]],
    [text |-> <<"1",":","2",":","3",":","4",":","5",":","6",":","7",":","8">>,
     bytes |-> [i \in 1..16 |-> IF i % 2 = 0 THEN i \div 2 ELSE 0]] }

NotAddresses ==
  { <<>>, <<"n","o","t","-","a","n","-","a","d","d","r","e","s","s">>,
    <<"1",".","2",".","3">>, <<"1",".","2",".","3",".","4",".","5">>,
    <<"1",".","2",".","3",".","x">>,
    <<":",":",":">>, <<"1",":",":","2",":",":","3">>,
    <<"1","2","3","4","5",":",":">>, <<"1",":","2">>, <<"g",":",":">>,
    <<"1",":","2",":","3",":","4",":","5",":","6",":","7",":","8",":","9">> }

AddrTexts ==
  DottedQuads \cup {s.text : s \in V6Samples} \cup NotAddresses

\* sizes of the reader's buffer
AddrLens == {3, 4, 15, 16, 64}

NoAddrLocals == [wrc |-> "none", af |-> "none", addrlen |-> 0, addr |-> <<>>]

InitAddr ==
  /\ cfg \in {c \in Configs : c.ldc_rootpwmoddn.isnull /\ c.ldc_rootpwmodpw.isnull
                                /\ c.ldc_pam_authz_search.isnull}
  /\ pc = "idle"
  /\ \E addr \in AddrTexts, addrlen \in AddrLens :
       req = [action |-> "address", addr |-> addr, addrlen |-> addrlen]
  /\ dir = NoDir
  /\ out = <<>>
  /\ ret = "0"
  /\ loc = NoAddrLocals
  /\ log = <<>>
  /\ ldap = <<>>
  /\ dict = EmptyDict
  /\ fqdn = NoFqdn

WriteAddress ==
  /\ pc = "idle"
  /\ req.action = "address"
  /\ LET w == write_address(req.addr) IN
       /\ out' = w.out
       /\ ret' = w.rc
       /\ log' = w.log
       /\ loc' = [loc EXCEPT !.wrc = w.rc]
  /\ pc' = "written"
  /\ UNCHANGED <<cfg, req, dir, ldap, dict, fqdn>>

ReadAddress ==
  /\ pc = "written"
  /\ LET r == read_address(out, req.addrlen) IN
       /\ ret' = r.rc
       /\ log' = log \o r.log
       /\ loc' = [loc EXCEPT !.af = r.af, !.addrlen = r.addrlen, !.addr = r.addr]
  /\ pc' = "read"
  /\ UNCHANGED <<cfg, req, dir, out, ldap, dict, fqdn>>

NextAddr == WriteAddress \/ ReadAddress

SpecAddr == InitAddr /\ [][NextAddr]_vars

-----------------------------------------------------------------------------
(* C13 *)

\* the dotted text of four bytes
V4Text(b) ==
  DecText(b[1]) \o <<".">> \o DecText(b[2]) \o <<".">> \o DecText(b[3])
    \o <<".">> \o DecText(b[4])

\* a dotted quad of four numbers up to 255 written without leading zeros
IsV4Text(s) ==
  \E a, d \in {0, 9, 192, 255}, b \in {0, 10}, c \in {2} :
    s = V4Text(<<a, b, c, d>>)

IsV6Text(s) == \E x \in V6Samples : x.text = s

\* C13: for an address string that parses as IPv4, or failing that as
\* IPv6, write_address followed by read_address with a buffer that is large
\* enough succeeds and gives the family, the family's length (4 or 16) and
\* the address's network-order bytes; for a string that parses as neither,
\* write_address writes family -1 and length 0 and returns success, and
\* read_address on that pair returns an error.
C13_AddressRoundTrip ==
  (pc = "read" /\ req.action = "address") =>
    /\ loc.wrc = "0"
    /\ (IsV4Text(req.addr) /\ req.addrlen >= 4) =>
         /\ ret = "0"
         /\ loc.af = AF_INET
         /\ loc.addrlen = 4
         /\ Len(loc.addr) = 4
         /\ V4Text(loc.addr) = req.addr
    /\ (IsV6Text(req.addr) /\ req.addrlen >= 16) =>
         /\ ret = "0"
         /\ loc.af = AF_INET6
         /\ loc.addrlen = 16
         /\ \E x \in V6Samples : x.text = req.addr /\ loc.addr = x.bytes
    /\ (~IsV4Text(req.addr) /\ ~IsV6Text(req.addr)) =>
         /\ out = <<WRITE_INT32(-1), WRITE_INT32(0)>>
         /\ ret = "-1"

C13_Witness ==
  /\ pc = "read"
  /\ req.addr = <<"1","9","2",".","0",".","2",".","9">>
  /\ req.addrlen = 4
  /\ ret = "0"
  /\ loc.af = AF_INET
  /\ loc.addr = <<192, 0, 2, 9>>

C13_WitnessNeither ==
  /\ pc = "read"
  /\ req.addr = <<"n","o","t","-","a","n","-","a","d","d","r","e","s","s">>
  /\ out = <<WRITE_INT32(-1), WRITE_INT32(0)>>
  /\ ret = "-1"

-----------------------------------------------------------------------------
(* C14 *)

\* secrets a request could have carried instead
AltSecrets == {EMPTY, PW, <<"x","y">>}

\* another administrator secret that fits the password buffers
ALT_ADMIN_PW == <<"r","p","2">>

PLACEHOLDER == <<"*","*","*">>

\* the run of the handler that served the request, on request r with the
\* configuration c and the directory answering as it did
Rerun(c, r) ==
  CASE r.action = "authc" -> nslcd_pam_authc(c, r, dir)
    [] r.action = "pwmod" -> nslcd_pam_pwmod(c, r, dir)

\* what the handler wrote and logged is what it writes and logs for r
SameOutput(c, r) == Rerun(c, r).out = out /\ Rerun(c, r).log = log

\* the requests that differ from the one served in their secrets only
SecretVariants ==
  {[req EXCEPT !.password = p, !.oldpassword = o, !.newpassword = n] :
     p \in (IF req.action = "authc" THEN AltSecrets ELSE {req.password}),
     o \in (IF req.action = "pwmod" THEN AltSecrets ELSE {req.oldpassword}),
     n \in (IF req.action = "pwmod" THEN AltSecrets ELSE {req.newpassword})}

\* each secret empty in both requests or in neither
SameEmptiness(r) ==
  /\ (r.password = EMPTY) <=> (req.password = EMPTY)
  /\ (r.oldpassword = EMPTY) <=> (req.oldpassword = EMPTY)
  /\ (r.newpassword = EMPTY) <=> (req.newpassword = EMPTY)

\* the log line that holds the request's parameters has the placeholder
\* or the empty string where its secrets are
SecretsRedacted ==
  /\ Len(log) >= 2
  /\ req.action = "authc" =>
       /\ Len(log[2].args) = 4
       /\ log[2].args[4] \in {PLACEHOLDER, EMPTY}
       /\ log[2].args[4] = EMPTY <=> req.password = EMPTY
  /\ req.action = "pwmod" =>
       /\ Len(log[2].args) = 5
       /\ \A i \in {4, 5} : log[2].args[i] \in {PLACEHOLDER, EMPTY}
       /\ log[2].args[4] = EMPTY <=> req.oldpassword = EMPTY
       /\ log[2].args[5] = EMPTY <=> req.newpassword = EMPTY

\* the same configuration with another administrator secret
AltAdminCfg == [cfg EXCEPT !.ldc_rootpwmodpw = Ptr(ALT_ADMIN_PW)]

\* C14 as written: no secret shows in a response field or a log line; log
\* lines have "***" or the empty string in a secret's place; two requests
\* that differ only in their secrets and get the same directory outcomes
\* have identical responses and log lines.
C14_Original ==
  (pc = "done" /\ req.action \in {"authc", "pwmod"}) =>
    /\ SecretsRedacted
    /\ \A r \in SecretVariants : SameOutput(cfg, r)
    /\ cfg.ldc_rootpwmodpw = Ptr(ADMIN_PW) => SameOutput(AltAdminCfg, req)

\* C14, amended: no secret shows in a response field or a log line; log
\* lines have "***" or the empty string in a secret's place; two requests
\* that differ only in the values of secrets that are non-empty in both,
\* and get the same directory outcomes, have identical responses and log
\* lines, and so do two runs that differ only in the configured
\* administrator secret.
C14_SecretsNotEchoed ==
  (pc = "done" /\ req.action \in {"authc", "pwmod"}) =>
    /\ SecretsRedacted
    /\ \A r \in SecretVariants : SameEmptiness(r) => SameOutput(cfg, r)
    /\ cfg.ldc_rootpwmodpw = Ptr(ADMIN_PW) => SameOutput(AltAdminCfg, req)

\* a password change by the administrator with the configured secret put
\* in, answered and logged as it is for other secrets
C14_Witness ==
  /\ Ran("pwmod")
  /\ req.userdn = ADMIN_DN /\ req.oldpassword = EMPTY /\ req.calleruid = 0
  /\ req.newpassword = NEW_PW
  /\ cfg.ldc_rootpwmodpw = Ptr(ADMIN_PW)
  /\ loc.rc = LDAP_SUCCESS
  /\ log[2].args[5] = PLACEHOLDER
  /\ \E r \in SecretVariants :
       r.newpassword # req.newpassword /\ SameEmptiness(r) /\ SameOutput(cfg, r)

-----------------------------------------------------------------------------
(* C15 *)

\* the sessions try_bind and try_pwmod got from myldap_create_session()
Created ==
  {i \in Calls("myldap_create_session") : ~ldap[i].session.isnull}

\* the calls that close the session created at i
ClosesOf(i) ==
  {j \in Calls("myldap_session_close") : ldap[j].session = ldap[i].session}

\* the calls made on the session created at i
UsesOf(i) ==
  {k \in 1..Len(ldap) : k # i /\ ldap[k].session = ldap[i].session}

\* C15: a session created by try_bind or try_pwmod is closed exactly once,
\* after its creation and after every other call made on it, whatever the
\* outcome of the search, the entry retrieval, the lookup or the modify;
\* none is open when the handler returns.
C15_SessionsClosed ==
  pc = "done" =>
    \A i \in Created :
      /\ Cardinality(ClosesOf(i)) = 1
      /\ \A j \in ClosesOf(i) : j > i /\ \A k \in UsesOf(i) : k <= j

\* the lookup in try_pwmod failed and its session was closed
C15_Witness ==
  /\ Ran("pwmod")
  /\ Called("lookup_dn2uid")
  /\ dir.pwmod.dn2uid.isnull
  /\ ~Called("myldap_passwd")
  /\ Created # {}
  /\ \A i \in Created : Cardinality(ClosesOf(i)) = 1

\* the search of try_bind failed and its session was closed
C15_WitnessBind ==
  /\ Ran("authc")
  /\ Called("myldap_search")
  /\ dir.bind.search.isnull
  /\ Created # {}
  /\ \A i \in Created : Cardinality(ClosesOf(i)) = 1

-----------------------------------------------------------------------------
(* C16 *)

\* the directory operations: lookups, searches and modifications
DirOps ==
  {"uid2entry", "myldap_search", "lookup_dn2uid", "myldap_passwd",
   "update_lastchange"}

OpEvents == {i \in 1..Len(ldap) : ldap[i].op \in DirOps}

\* the operations run on the session that event i names
OpsOn(i) == {k \in OpEvents : ldap[k].session = ldap[i].session}

CredentialsOn(i) ==
  {k \in Calls("myldap_set_credentials") : ldap[k].session = ldap[i].session}

\* the session of operation i was created in this request, given one
\* credential tuple before the operation, and closed after it
OwnSession(i) ==
  /\ \E c \in Created : c < i /\ ldap[c].session = ldap[i].session
  /\ Cardinality(CredentialsOn(i)) = 1
  /\ \A k \in CredentialsOn(i) : k < i
  /\ \E j \in Calls("myldap_session_close") :
       j > i /\ ldap[j].session = ldap[i].session

\* the operations validate_user and try_autzsearch run
OnWorkerSession(i) ==
  \/ ldap[i].op = "uid2entry"
  \/ ldap[i].op = "myldap_search" /\ ldap[i].args[2] = "LDAP_SCOPE_SUBTREE"

-----------------------------------------------------------------------------
(* getfqdn() called from several threads: fqdn is the static pointer,      *)
(* dir.host what gethostname() and gethostbyname() answer for this host    *)
(* and, in stale, what the resolver's buffer holds where an alias was      *)
(* read; loc is each thread's place in the function, out the calls that    *)
(* have returned, in the order of their return                            *)

Threads == {1, 2}

MaxCalls == 3

\* the answers of gethostname() and gethostbyname(): one for each way
\* getfqdn() comes to its value
FqdnHosts ==
  { NoHost,
    Host(TRUE, HOSTNAME, NoHostent, EMPTY),
    Host(TRUE, HOSTNAME, Hostent(HOST_FQDN, <<>>), EMPTY),
    Host(TRUE, HOSTNAME, Hostent(<<"x">>, <<HOSTNAME, HOST_FQDN>>), EMPTY),
    Host(TRUE, HOSTNAME, Hostent(<<"x",".","d">>, <<>>), EMPTY),
    Host(TRUE, HOSTNAME, Hostent(<<"x">>, <<<<"y">>, <<"y",".","d">>>>), EMPTY),
    Host(TRUE, HOSTNAME, Hostent(<<"x">>, <<<<"y">>>>), EMPTY) }

\* what another lookup leaves in the resolver's buffer
OtherHostNames == {<<"o",".","d">>, <<"*">>}

ThreadIdle == [pc |-> "idle", entered |-> 0]

\* the string a caller reads through the pointer getfqdn() gave it
FqdnString(cache) ==
  IF cache.isnull THEN NULL
  ELSE IF cache.owned THEN Ptr(cache.s)
  ELSE Ptr(dir.host.stale)

\* a call that has returned: the string it gave, whether it asked the
\* resolver, and how many calls had returned when it began
Returned_call(t, val, resolved, entered) ==
  [t |-> t, val |-> val, resolved |-> resolved, entered |-> entered]

InitFqdn ==
  /\ cfg \in {c \in Configs : c.ldc_rootpwmoddn.isnull /\ c.ldc_rootpwmodpw.isnull
                                /\ c.ldc_pam_authz_search.isnull}
  /\ pc = "getfqdn"
  /\ req = NoRequest
  /\ \E h \in FqdnHosts : dir = [NoDir EXCEPT !.host = h]
  /\ out = <<>>
  /\ ret = "0"
  /\ loc = [t \in Threads |-> ThreadIdle]
  /\ log = <<>>
  /\ ldap = <<>>
  /\ dict = EmptyDict
  /\ fqdn = NoFqdn

\* lines 69-71: a thread enters and looks at the static pointer
FqdnEnter(t) ==
  /\ pc = "getfqdn"
  /\ loc[t].pc = "idle"
  /\ Len(out) + Cardinality({u \in Threads : loc[u].pc = "resolving"}) < MaxCalls
  /\ IF ~fqdn.isnull
       THEN /\ out' = Append(out, Returned_call(t, FqdnString(fqdn), FALSE, Len(out)))
            /\ loc' = loc
       ELSE /\ loc' = [loc EXCEPT ![t] = [pc |-> "resolving", entered |-> Len(out)]]
            /\ out' = out
  /\ UNCHANGED <<cfg, pc, req, dir, ret, log, ldap, dict, fqdn>>

\* lines 72-124: the thread asks for the hostname and the hostent, stores
\* its result in the static pointer and returns it
FqdnResolve(t) ==
  /\ pc = "getfqdn"
  /\ loc[t].pc = "resolving"
  /\ LET r == getfqdn(NoFqdn, dir.host)
         buf == IF ~r.cache.isnull /\ ~r.cache.owned
                  THEN r.cache.s ELSE dir.host.stale
     IN
       /\ fqdn' = IF r.val.isnull THEN fqdn ELSE r.cache
       /\ dir' = [dir EXCEPT !.host.stale = buf]
       /\ out' = Append(out, Returned_call(t,
                         IF r.val.isnull THEN NULL
                         ELSE IF r.val.owned THEN Ptr(r.val.s) ELSE Ptr(buf),
                         TRUE, loc[t].entered))
       /\ log' = log \o r.log
       /\ ldap' = ldap \o r.ev
  /\ loc' = [loc EXCEPT ![t] = ThreadIdle]
  /\ UNCHANGED <<cfg, pc, req, ret, dict>>

\* another gethostbyname() in the process overwrites the resolver's buffer
OtherLookup ==
  /\ pc = "getfqdn"
  /\ ~fqdn.isnull
  /\ Len(out) < MaxCalls
  /\ \E n \in OtherHostNames :
       /\ dir.host.stale # n
       /\ dir' = [dir EXCEPT !.host.stale = n]
  /\ UNCHANGED <<cfg, pc, req, out, ret, loc, log, ldap, dict, fqdn>>

NextFqdn ==
  \/ \E t \in Threads : FqdnEnter(t)
  \/ \E t \in Threads : FqdnResolve(t)
  \/ OtherLookup

SpecFqdn == InitFqdn /\ [][NextFqdn]_vars

-----------------------------------------------------------------------------
(* C17 *)

\* the calls that returned a string
Successes == {i \in 1..Len(out) : ~out[i].val.isnull}

\* C17: once a call of getfqdn has returned a string, every call that
\* returns after it gives the same string, the cached value reads as that
\* string from then on, whatever the resolver's buffer holds by then, and
\* no call that begins after it asks the resolver again.
C17_FqdnMemoized ==
  pc = "getfqdn" =>
    \A i \in Successes :
      /\ \A j \in (i + 1)..Len(out) : out[j].val = out[i].val
      /\ FqdnString(fqdn) = out[i].val
      /\ \A j \in 1..Len(out) : out[j].entered >= i => ~out[j].resolved

-----------------------------------------------------------------------------
(* Handlers running at the same time in several threads, seen through the  *)
(* static variables they touch: dict holds, for each static variable of    *)
(* pam.c and common.c, its value, the threads that have written it and the *)
(* last of them; loc is each thread's handler and place in it; ldap the    *)
(* searches made, each with the attribute list it was handed              *)

ATTR_DN == Ptr(<<"d","n">>)

\* a static variable: zero-initialised, written by no thread yet
Cell(val) == [val |-> val, writers |-> {}, last |-> 0]

Written(cell, t, val) ==
  [val |-> val, writers |-> cell.writers \cup {t}, last |-> t]

\* static const char *attrs[2] of try_bind and of try_autzsearch, and
\* static char *fqdn of getfqdn
Statics ==
  [bind_attrs |-> Cell(<<NULL, NULL>>),
   autz_attrs |-> Cell(<<NULL, NULL>>),
   fqdn |-> Cell(NoFqdn)]

\* the handler a thread runs and the attribute list its search uses
AttrsOf(kind) == IF kind = "authc" THEN "bind_attrs" ELSE "autz_attrs"

SHARED_HOST == Host(TRUE, HOSTNAME, Hostent(HOST_FQDN, <<>>), EMPTY)

InitShared ==
  /\ cfg \in {c \in Configs : c.ldc_rootpwmoddn.isnull /\ c.ldc_rootpwmodpw.isnull
                                /\ c.ldc_pam_authz_search = Ptr(TEMPLATE)}
  /\ pc = "threads"
  /\ req = NoRequest
  /\ dir = [NoDir EXCEPT !.host = SHARED_HOST]
  /\ out = <<>>
  /\ ret = "0"
  /\ \E kinds \in [Threads -> {"authc", "authz"}] :
       loc = [t \in Threads |->
                [kind |-> kinds[t],
                 pc |-> IF kinds[t] = "authc" THEN "attrs0" ELSE "getfqdn"]]
  /\ log = <<>>
  /\ ldap = <<>>
  /\ dict = Statics
  /\ fqdn = NoFqdn

\* common.c:70: nslcd_pam_authz calls getfqdn(), which looks at the pointer
SharedFqdnCheck(t) ==
  /\ pc = "threads"
  /\ loc[t].pc = "getfqdn"
  /\ loc' = [loc EXCEPT ![t].pc = IF fqdn.isnull THEN "fqdn_store" ELSE "attrs0"]
  /\ UNCHANGED <<cfg, pc, req, dir, out, ret, log, ldap, dict, fqdn>>

\* common.c:72-124: and stores what it resolved
SharedFqdnStore(t) ==
  /\ pc = "threads"
  /\ loc[t].pc = "fqdn_store"
  /\ LET r == getfqdn(NoFqdn, dir.host) IN
       /\ fqdn' = r.cache
       /\ dict' = [dict EXCEPT !.fqdn = Written(@, t, r.cache)]
  /\ loc' = [loc EXCEPT ![t].pc = "attrs0"]
  /\ UNCHANGED <<cfg, pc, req, dir, out, ret, log, ldap>>

\* pam.c:57-58 and 288-289: attrs[0]="dn"; attrs[1]=NULL;
SharedStoreAttrs(t) ==
  /\ pc = "threads"
  /\ loc[t].pc \in {"attrs0", "attrs1"}
  /\ LET a == AttrsOf(loc[t].kind)
         i == IF loc[t].pc = "attrs0" THEN 1 ELSE 2
         v == IF i = 1 THEN ATTR_DN ELSE NULL
     IN dict' = [dict EXCEPT ![a] = Written(@, t, [@.val EXCEPT ![i] = v])]
  /\ loc' = [loc EXCEPT ![t].pc = IF @ = "attrs0" THEN "attrs1" ELSE "search"]
  /\ UNCHANGED <<cfg, pc, req, dir, out, ret, log, ldap, fqdn>>

\* pam.c:59 and 291: myldap_search(session,...,attrs,&rc) reads the list
SharedSearch(t) ==
  /\ pc = "threads"
  /\ loc[t].pc = "search"
  /\ LET a == dict[AttrsOf(loc[t].kind)] IN
       ldap' = Append(ldap, [op |-> "myldap_search", t |-> t,
                             attrs |-> a.val, last |-> a.last])
  /\ loc' = [loc EXCEPT ![t].pc = "done"]
  /\ UNCHANGED <<cfg, pc, req, dir, out, ret, log, dict, fqdn>>

NextShared ==
  \/ \E t \in Threads : SharedFqdnCheck(t)
  \/ \E t \in Threads : SharedFqdnStore(t)
  \/ \E t \in Threads : SharedStoreAttrs(t)
  \/ \E t \in Threads : SharedSearch(t)

SpecShared == InitShared /\ [][NextShared]_vars

-----------------------------------------------------------------------------
(* C18 *)

\* C18: of the static variables, only the FQDN cache is written while
\* requests are handled, so only it can be written by more than one
\* handler, and no search of a handler is handed a value that another
\* handler wrote.
C18_OnlyFqdnShared ==
  pc = "threads" =>
    /\ \A v \in DOMAIN dict : v # "fqdn" => dict[v].writers = {}
    /\ \A i \in 1..Len(ldap) : ldap[i].last = ldap[i].t

\* C18, the part about two handlers: no static variable but the FQDN cache
\* is written by more than one handler, and no search of a handler is
\* handed a value that another handler wrote.
C18_NoTwoWriters ==
  pc = "threads" =>
    /\ \A v \in DOMAIN dict : v # "fqdn" => Cardinality(dict[v].writers) <= 1
    /\ \A i \in 1..Len(ldap) : ldap[i].last = ldap[i].t

-----------------------------------------------------------------------------
(* C19 *)

\* the administrator DN is configured and too long for char userdn[256],
\* and nslcd_pam_authc is about to copy it
DnWillNotFit ==
  /\ req.action = "authc"
  /\ req.username = EMPTY
  /\ ~cfg.ldc_rootpwmoddn.isnull
  /\ Len(cfg.ldc_rootpwmoddn.s) >= SZ_USERDN

\* the request is one for which the handler puts the administrator secret
\* in place of the empty secret it got
SecretSubstituted ==
  /\ ~cfg.ldc_rootpwmoddn.isnull
  /\ ~cfg.ldc_rootpwmodpw.isnull
  /\ req.calleruid = 0
  /\ \/ req.action = "authc" /\ req.username = EMPTY /\ req.password = EMPTY
     \/ req.action = "pwmod" /\ req.userdn = cfg.ldc_rootpwmoddn.s
          /\ req.oldpassword = EMPTY

\* the administrator secret is too long for char password[64] or char
\* oldpassword[64], and the handler is about to copy it
SecretWillNotFit ==
  /\ SecretSubstituted
  /\ Len(cfg.ldc_rootpwmodpw.s) >= SZ_PASSWORD

\* C19: when the configured administrator DN or secret is too long for
\* the handler's buffer and the bypass that copies it is taken, the handler
\* returns an error, makes no directory call, and writes no result record
\* and no end marker; a handler that returns has written no end marker only
\* in these cases.
C19_OverflowAbortOnly ==
  (pc = "done" /\ ret \in {"0", "-1"}
     /\ req.action \in {"authc", "authz", "sess_o", "sess_c", "pwmod"}) =>
    /\ (DnWillNotFit \/ SecretWillNotFit) =>
         /\ ret = "-1"
         /\ ldap = <<>>
         /\ Begins = {}
         /\ Ends = {}
         /\ OverflowAbort
    /\ Ends = {} => (DnWillNotFit \/ SecretWillNotFit)

C19_Witness ==
  /\ Returned("pwmod")
  /\ SecretWillNotFit
  /\ cfg.ldc_rootpwmodpw = Ptr(LONG_PW)
  /\ ret = "-1"
  /\ Len(out) = 2
  /\ ldap = <<>>

C19_WitnessDn ==
  /\ Returned("authc")
  /\ DnWillNotFit
  /\ ret = "-1"
  /\ Len(out) = 2
  /\ ldap = <<>>

-----------------------------------------------------------------------------
(* C20 *)

PamActions == {"authc", "authz", "sess_o", "sess_c", "pwmod"}

\* the log calls a handler makes on entry, before it validates anything
\* (log_setrequest and the LOG_DEBUG line with the request's parameters),
\* that are given the request's username
EntryLogsOfUsername ==
  {i \in {1, 2} : i <= Len(log) /\ log[i].args # <<>> /\ log[i].args[1] = req.username}

\* the searches whose filter is built from the authorisation context
FilterSearches ==
  {i \in Calls("myldap_search") : ldap[i].args[2] = "LDAP_SCOPE_SUBTREE"}

\* the call at i was made after validate_user was entered with this name
ValidatedBefore(i, name) ==
  \E j \in Calls("validate_user") : j < i /\ ldap[j].args[2] = name

\* no lookup by username and no filter built from the username unless the
\* name validator accepted the username earlier in the request
LookupsValidated ==
  /\ \A i \in Calls("uid2entry") :
       /\ GoodName(ldap[i].args[1])
       /\ ValidatedBefore(i, ldap[i].args[1])
  /\ \A i \in FilterSearches :
       /\ GoodName(req.username)
       /\ ValidatedBefore(i, req.username)

\* C20 as written: in every handler no log call and no directory lookup
\* is given the request's username before isvalidname has accepted it.
C20_Original ==
  (pc = "done" /\ req.action \in PamActions) =>
    /\ LookupsValidated
    /\ EntryLogsOfUsername # {} => GoodName(req.username)

\* C20, amended: in every handler no directory lookup is given the
\* request's username, and no filter is built from it, before isvalidname
\* has accepted it in that request; the log calls on entry are given the
\* username as received.
C20_LookupAfterValidation ==
  (pc = "done" /\ req.action \in PamActions) =>
    /\ LookupsValidated
    /\ EntryLogsOfUsername = {1, 2}

\* a name that needs escaping was validated, looked up and searched with
C20_Witness ==
  /\ Ran("authz")
  /\ req.username = U_bs
  /\ Called("uid2entry")
  /\ FilterSearches # {}
  /\ EntryLogsOfUsername = {1, 2}

\* a name the validator refuses was logged and not looked up
C20_WitnessRefused ==
  /\ Ran("authc")
  /\ req.username = U_bad
  /\ ~Called("uid2entry")
  /\ EntryLogsOfUsername = {1, 2}

-----------------------------------------------------------------------------
(* C21 *)

\* dn is the configured administrator DN, or the DN of the entry the
\* lookup of the username found in this request
ValidatedDn(dn) ==
  \/ ~cfg.ldc_rootpwmoddn.isnull /\ dn = cfg.ldc_rootpwmoddn.s
  \/ LookupFound /\ dn = dir.lookup.entry.dn

\* the authentication handler wrote a record that reports success
AuthcSuccessRecord ==
  /\ req.action = "authc"
  /\ OneRecord(5)
  /\ IsInt(out[6], NSLCD_PAM_SUCCESS)

\* C21: every DN a handler passes to try_bind or try_pwmod, puts in the
\* authorisation context or echoes in a success record is the configured
\* administrator DN or the DN a successful lookup of the request's username
\* gave in the same request; a non-empty DN of the request is not used as
\* it came.
C21_DnValidatedBeforeUse ==
  (pc = "done" /\ req.action \in PamActions) =>
    /\ \A i \in Calls("try_bind") : ValidatedDn(ldap[i].args[1])
    /\ \A i \in Calls("try_pwmod") :
         ValidatedDn(ldap[i].args[1]) /\ ValidatedDn(ldap[i].args[2])
    /\ (req.action = "authz" /\ FilterSearches # {}) => ValidatedDn(loc.userdn)
    /\ AuthcSuccessRecord => ValidatedDn(out[5].v)

-----------------------------------------------------------------------------
(* C22 *)

\* myldap_passwd() was called and returned success
PasswdSucceeded ==
  /\ Called("myldap_passwd")
  /\ dir.pwmod.passwd = LDAP_SUCCESS

\* the calls made after the first update_lastchange
AfterLastchange ==
  {i \in 1..Len(ldap) : \E k \in Calls("update_lastchange") : k < i}

\* C22: once myldap_passwd() has returned success, try_pwmod returns
\* success and nslcd_pam_pwmod reports success whether update_lastchange
\* succeeds or fails, and after the update the session is closed and
\* nothing else is done in the directory.
C22_LastchangeFailureIgnored ==
  (Ran("pwmod") /\ PasswdSucceeded) =>
    /\ loc.rc = LDAP_SUCCESS
    /\ ret = "0"
    /\ OneRecord(4)
    /\ IsInt(out[6], NSLCD_PAM_SUCCESS)
    /\ Cardinality(Calls("myldap_passwd")) = 1
    /\ Cardinality(Calls("update_lastchange")) = 1
    /\ \A i \in AfterLastchange : ldap[i].op = "myldap_session_close"

\* the password was changed and the timestamp update failed
C22_Witness ==
  /\ Ran("pwmod")
  /\ PasswdSucceeded
  /\ Called("update_lastchange")
  /\ dir.pwmod.lastchange = LDAP_SERVER_DOWN
  /\ IsInt(out[6], NSLCD_PAM_SUCCESS)

-----------------------------------------------------------------------------
(* C23 *)

\* lookup_dn2uid() on the new session returned the entry's name and
\* success
TargetResolved ==
  /\ Called("lookup_dn2uid")
  /\ ~dir.pwmod.dn2uid.isnull
  /\ dir.pwmod.dn2uid.rc = LDAP_SUCCESS

\* lookup_dn2uid() returned NULL, whatever code it stored
TargetNotFound == Called("lookup_dn2uid") /\ dir.pwmod.dn2uid.isnull

\* the password-change handler wrote a record with this status
PwmodStatus(status) ==
  /\ req.action = "pwmod"
  /\ OneRecord(4)
  /\ IsInt(out[6], status)

\* C23: nslcd_pam_pwmod writes a success status only if the target DN
\* resolved under the bound session and myldap_passwd() was then called
\* and returned success; when the lookup of the target DN yields no entry,
\* with any code, no modify is issued and the status is permission-denied.
C23_PwmodSuccessOnlyAfterModify ==
  Ran("pwmod") =>
    /\ PwmodStatus(NSLCD_PAM_SUCCESS) => (TargetResolved /\ PasswdSucceeded)
    /\ TargetNotFound =>
         /\ ~Called("myldap_passwd")
         /\ PwmodStatus(NSLCD_PAM_PERM_DENIED)

-----------------------------------------------------------------------------
(* C24 *)

\* validate_user looked the username up and the entry has a DN
EntryWithDn ==
  /\ LookupFound
  /\ ~strcaseeq(dir.lookup.entry.dn, UNKNOWN_DN)

\* the entry gives no canonical username: no RDN value for uid and a uid
\* value list that is missing or empty
NoCanonicalName == CanonicalName.isnull

\* the canonical username needs more than char username[256]
CanonicalTooLong ==
  /\ ~CanonicalName.isnull
  /\ Len(CanonicalName.s) >= SZ_USERNAME

\* C24: validate_user with an absent DN returns InvalidSyntax, and the
\* process neither dies nor reads an undefined value, whenever the matched
\* entry gives no canonical username or the canonical username does not
\* fit the caller's username buffer.
C24_NoCanonicalIsInvalidSyntax ==
  (pc = "done" /\ EntryWithDn /\ (NoCanonicalName \/ CanonicalTooLong)) =>
    /\ ret # "crash"
    /\ loc.vrc = LDAP_INVALID_SYNTAX

-----------------------------------------------------------------------------
(* C25 *)

\* myldap_search() gave a search and success
BindSearchOk ==
  /\ dir.bind.create
  /\ ~dir.bind.search.isnull
  /\ dir.bind.search.rc = LDAP_SUCCESS

\* what try_bind does apart from the code it returns when the search
\* succeeded and gives no entry: success only after a search and an entry,
\* the directory's error on a failure, LDAP_LOCAL_ERROR for success without
\* a search handle, LDAP_UNAVAILABLE and no bind attempt without a session
TryBindCodes ==
  /\ loc.rc = LDAP_SUCCESS => ~BindFailed
  /\ ~dir.bind.create =>
       /\ loc.rc = LDAP_UNAVAILABLE
       /\ ~Called("myldap_set_credentials")
       /\ ~Called("myldap_search")
  /\ (dir.bind.create /\ dir.bind.search.rc # LDAP_SUCCESS) =>
       loc.rc = dir.bind.search.rc
  /\ (BindSearchOk /\ dir.bind.entry.rc # LDAP_SUCCESS) =>
       loc.rc = dir.bind.entry.rc
  /\ (dir.bind.create /\ dir.bind.search.isnull
        /\ dir.bind.search.rc = LDAP_SUCCESS) =>
       loc.rc = LDAP_LOCAL_ERROR

\* the search succeeded and myldap_get_entry() returned NULL and success
BindNoEntry ==
  /\ BindSearchOk
  /\ dir.bind.entry.isnull
  /\ dir.bind.entry.rc = LDAP_SUCCESS

\* C25 as written: try_bind returns success only when the base-scope
\* search succeeded and returned an entry, returns the directory's error on
\* a search or entry-retrieval failure, LocalError when the directory
\* reports success and gives no search handle or no entry, and Unavailable
\* with no bind attempt when no session could be created.
C25_Original ==
  (Ran("authc") /\ Called("try_bind")) =>
    /\ TryBindCodes
    /\ BindNoEntry => loc.rc = LDAP_LOCAL_ERROR

\* C25, amended: as above, except that the code is LocalError when the
\* directory reports success and gives no search handle, and
\* NoResultsReturned when the search succeeded and gives no entry.
C25_TryBindCodes ==
  (Ran("authc") /\ Called("try_bind")) =>
    /\ TryBindCodes
    /\ BindNoEntry => loc.rc = LDAP_NO_RESULTS_RETURNED

\* the search succeeded and had no entry
C25_Witness ==
  /\ Ran("authc")
  /\ Called("try_bind")
  /\ Called("myldap_get_entry")
  /\ BindNoEntry
  /\ loc.rc = LDAP_NO_RESULTS_RETURNED

\* no search handle with success
C25_WitnessNoHandle ==
  /\ Ran("authc")
  /\ Called("try_bind")
  /\ dir.bind.create /\ dir.bind.search.isnull
  /\ dir.bind.search.rc = LDAP_SUCCESS
  /\ loc.rc = LDAP_LOCAL_ERROR

-----------------------------------------------------------------------------
(* A list of addresses written with successive write_address calls and    *)
(* read back with one read_address call per entry.  req holds the list    *)
(* and the reader's buffer size, out the stream written, loc the number   *)
(* of entries written, what is left of the stream and what each           *)
(* read_address call handed back.                                         *)

\* the longest list
MaxAddrs == 3

\* two addresses and two strings that are neither kind of address
ListTexts ==
  { V4Text(<<192, 0, 2, 9>>), <<":",":","1">>,
    <<"1",".","2",".","3">>, <<"g",":",":">> }

AddrLists ==
  UNION {[1..n -> ListTexts] : n \in 1..MaxAddrs}

NoListLocals == [written |-> 0, rest |-> <<>>, results |-> <<>>]

InitList ==
  /\ cfg \in {c \in Configs : c.ldc_rootpwmoddn.isnull /\ c.ldc_rootpwmodpw.isnull
                                /\ c.ldc_pam_authz_search.isnull}
  /\ pc = "writing"
  /\ \E addrs \in AddrLists, addrlen \in {16, 64} :
       req = [action |-> "addresses", addrs |-> addrs, addrlen |-> addrlen]
  /\ dir = NoDir
  /\ out = <<>>
  /\ ret = "0"
  /\ loc = NoListLocals
  /\ log = <<>>
  /\ ldap = <<>>
  /\ dict = EmptyDict
  /\ fqdn = NoFqdn

\* the writer writes the next address of the list; after the last one the
\* stream goes to the reader
ListWrite ==
  /\ pc = "writing"
  /\ LET k == loc.written + 1
         w == write_address(req.addrs[k])
     IN
       /\ out' = out \o w.out
       /\ ret' = w.rc
       /\ log' = log \o w.log
       /\ loc' = [loc EXCEPT !.written = k,
                             !.rest = IF k = Len(req.addrs) THEN out \o w.out
                                      ELSE <<>>]
       /\ pc' = IF k = Len(req.addrs) THEN "reading" ELSE "writing"
  /\ UNCHANGED <<cfg, req, dir, ldap, dict, fqdn>>

\* the reader calls read_address for the next entry, with its buffer size
\* in *addrlen
ListRead ==
  /\ pc = "reading"
  /\ LET r == read_address(loc.rest, req.addrlen)
         res == [rc |-> r.rc, af |-> r.af, addrlen |-> r.addrlen,
                 addr |-> r.addr, consumed |-> Len(loc.rest) - Len(r.rest)]
     IN
       /\ ret' = r.rc
       /\ log' = log \o r.log
       /\ loc' = [loc EXCEPT !.rest = r.rest,
                             !.results = Append(loc.results, res)]
       /\ pc' = IF Len(loc.results) + 1 = Len(req.addrs) THEN "read"
                ELSE "reading"
  /\ UNCHANGED <<cfg, req, dir, out, ldap, dict, fqdn>>

NextList == ListWrite \/ ListRead

SpecList == InitList /\ [][NextList]_vars

-----------------------------------------------------------------------------
(* C26 *)

\* the address string parses as IPv4 or as IPv6
Parseable(addr) == inet_pton4(addr).ok \/ inet_pton6(addr).ok

\* the entries of the list that parse as neither
BadEntries == {k \in 1..Len(req.addrs) : ~Parseable(req.addrs[k])}

\* the read_address call for entry j gave the family and the bytes that
\* write_address wrote for it
DecodedAsWritten(j) ==
  LET w == write_address(req.addrs[j]).out
      r == loc.results[j]
  IN /\ r.rc = "0"
     /\ r.af = w[1].v
     /\ r.addrlen = w[2].v
     /\ r.addr = w[3].v

\* C26: when a list with one unparseable entry is written with successive
\* write_address calls and read back with successive read_address calls,
\* read_address fails on the sentinel entry, consumes no more than that
\* entry's family and length fields, leaves the caller's length unchanged,
\* and every parseable address written after the bad one decodes to its
\* original family and bytes.
C26_ListStaysAligned ==
  (pc = "read" /\ req.action = "addresses" /\ Cardinality(BadEntries) = 1) =>
    \A k \in BadEntries :
      /\ loc.results[k].rc = "-1"
      /\ loc.results[k].consumed <= 2
      /\ loc.results[k].addrlen = req.addrlen
      /\ \A j \in (k + 1)..Len(req.addrs) : DecodedAsWritten(j)

=============================================================================
